---- MODULE Spec2Model ----
(***************************************************************************)
(* A model of the Loxone protocol adapter of mcp-loxone:                   *)
(*   - LoxoneTokenClient (loxone_token_client.py): connect, token          *)
(*     acquisition and refresh, send_command with its 401 and network      *)
(*     error recovery;                                                     *)
(*   - LoxoneHTTPClient.send_command (loxone_http_client.py);              *)
(*   - LoxoneWebSocketClient (loxone_websocket_client.py): connect, close, *)
(*     the message handler, reconnect, the Gen 1 payload scan, the state   *)
(*     mirror and its callbacks.                                           *)
(* Every coroutine is cut at its await points: one action runs the code    *)
(* from one await to the next.  Program locations that are not await       *)
(* points are "internal": while a task stands at one, no other task and no *)
(* clock tick may step (asyncio runs a task until it awaits).              *)
(***************************************************************************)
EXTENDS Integers, Sequences, FiniteSets, TLC

\* ------------------------------------------------------------------------
\* Bounds of the model
\* ------------------------------------------------------------------------
MaxDepth == 2          \* nested send_command frames explored
MaxIssued == 3         \* tokens the Miniserver issues in one run
MaxTicks == 2          \* clock ticks in one run
MaxAttemptsCfg == 2    \* largest configured max_reconnect_attempts explored
MaxCalls == 1          \* top-level send_command calls per task
MaxHandlers == 2       \* message handler tasks created in one run
MaxFrames == 2         \* binary frames received in one run
MaxCallbacks == 2      \* distinct callbacks that register
MaxEventsPerSensor == 2   \* max_events_per_sensor of the state logger
MaxSensors == 2        \* max_sensors of the state logger
MaxChanges == 3        \* calls of log_state_change in one run
MaxLgTicks == 2        \* ticks of the state logger's clock in one run
MaxUpdates == 500      \* updates of one sensor in a discovery window

\* ------------------------------------------------------------------------
\* Program constants
\* ------------------------------------------------------------------------
LOXONE_EPOCH == 1230768000   \* loxone_token_client.py:389
REFRESH_MARGIN == 300        \* loxone_token_client.py:391

None == 0                    \* loxone_token_client.py:62, no token / no expiry
TickStep == REFRESH_MARGIN + 200   \* seconds one clock tick advances
StartUnix == LOXONE_EPOCH + 1000
Lifetimes == {700, 900}      \* validity (s) of a token the Miniserver issues

VARIABLES
  \* LoxoneTokenClient fields
  connected, token, key, token_valid_until, structure,
  reconnection_event, max_reconnect_attempts,
  \* the callers' coroutines: task[t] is the position of caller t
  task,
  \* environment: wall clock (unix seconds), tokens issued so far
  unixNow, issued,
  \* observations (history variables read only by the properties)
  obs, probed

httpVars == <<connected, token, key, token_valid_until, structure,
              reconnection_event, max_reconnect_attempts, task,
              unixNow, issued, obs, probed>>

\* The owner's close() of the token client
VARIABLES
  closing   \* [pc, held, kills, outcome, log, returned]: position of close(), the token it found, the killtoken requests sent, the reply and how it was logged, the fields at return

\* LoxoneWebSocketClient
VARIABLES
  \* fields: websocket, connected, authenticated, running, _tasks,
  \* reconnect_count, _reconnecting, max_reconnect_attempts, states,
  \* state_callbacks
  ws_websocket, ws_connected, ws_authenticated, running, ws_tasks,
  reconnect_count, reconnecting, ws_max_reconnect_attempts,
  states, state_callbacks,
  \* actor[a]: the position of the owner's coroutine (a = 0) and of every
  \* message handler task created so far
  actor,
  \* observations: frames received, the changes applied to the mirror, what
  \* each callback was called with, where in the log it registered, and
  \* flags of the connection's history
  framesDone, applied, delivered, joined, wsObs,
  \* the outcome of the recv() that returned last (the handler's local
  \* "message", or the exception wait_for raised)
  message

wsVars == <<ws_websocket, ws_connected, ws_authenticated, running, ws_tasks,
            reconnect_count, reconnecting, ws_max_reconnect_attempts,
            states, state_callbacks, actor,
            framesDone, applied, delivered, joined, wsObs, message>>

\* SensorStateLogger (sensor_state_logger.py)
VARIABLES
  \* the log file on disk: [kind, sensors], kind "missing", "json" (a
  \* complete JSON document), "garbage" or "partial" (a truncated write)
  log_file,
  \* fields: sensor_histories (a dict, in insertion order: a sequence of
  \* [uuid, last_updated, state_events]), pending_changes,
  \* _shutdown_requested
  sensor_histories, pending_changes, shutdown_requested,
  \* where the logger stands: "running", "cancelling" (shutdown awaits the
  \* cancelled sync task), "down" (shutdown returned), "stopped" (the
  \* process was stopped)
  lgPhase,
  \* time.time()
  lgNow,
  \* observations: the file the constructor found, the UUIDs it loaded,
  \* every timestamp given to the history a UUID has now, and flags of the
  \* writes
  lgObs

lgVars == <<log_file, sensor_histories, pending_changes, shutdown_requested,
            lgPhase, lgNow, lgObs>>

\* DynamicSensorDiscovery (dynamic_sensor_discovery.py)
VARIABLES
  \* [active, sensor]: discovery_active and the DiscoveredSensor of one
  \* UUID (update_count 0: the UUID is not in self.sensors)
  discovery

\* The MCP server process (server.py, sse_server.py)
VARIABLES
  \* [context, SSE_REQUIRE_AUTH, SSE_API_KEY] and the operation being
  \* served: [call, result, sent] of a tool, [request, response] of a route
  server

\* Variables of the other components, left alone by the token client.
nonHttpVars == <<wsVars, lgVars, discovery, server, closing>>
\* Variables of the other components, left alone by the WebSocket client.
nonWsVars == <<httpVars, lgVars, discovery, server, closing>>
\* Variables of the other components, left alone by the state logger.
nonLgVars == <<httpVars, wsVars, discovery, server, closing>>
\* Variables of the other components, left alone by the discoverer.
nonDsVars == <<httpVars, wsVars, lgVars, server, closing>>
\* Variables of the other components, left alone by the MCP server.
nonSrvVars == <<httpVars, wsVars, lgVars, discovery, closing>>

vars == <<httpVars, wsVars, lgVars, discovery, server, closing>>

Tasks == {1, 2}

\* ------------------------------------------------------------------------
\* Replies of the Miniserver
\* ------------------------------------------------------------------------
\* A reply to a command GET: a transport failure (httpx.NetworkError /
\* TimeoutException), an HTTP 5xx status (raise_for_status raises
\* HTTPStatusError), or a JSON body.  A body is an LL envelope whose status
\* is stored under "code" or under "Code", or a JSON value without "LL".
Reply(kind, ll, k, c) == [kind |-> kind, ll |-> ll, key |-> k, code |-> c]
NetFail == Reply("net", FALSE, "none", "none")
Status5xx == Reply("status5xx", FALSE, "none", "none")
NonLL == Reply("body", FALSE, "none", "none")
NoReply == Reply("none", FALSE, "none", "none")
Codes == {"200", "401", "404"}
CommandReplies ==
  {NetFail, Status5xx, NonLL}
    \cup {Reply("body", TRUE, k, c) : k \in {"code", "Code"}, c \in Codes}

\* Outcome of a request whose body is only tested for success.
Outcomes == {"ok", "net", "other"}

\* data.get("LL", {}).get(name): the status stored under this very key.
DictGet(r, name) ==
  IF r.kind = "body" /\ r.ll /\ r.key = name THEN r.code ELSE "none"

\* ------------------------------------------------------------------------
\* LoxoneHTTPClient.send_command
\* ------------------------------------------------------------------------
HTTPClient_send_command(r) ==
  IF r.kind # "body" THEN [result |-> "error", reply |-> r]
  ELSE IF r.ll
       THEN IF DictGet(r, "Code") = "200"
            THEN [result |-> "value", reply |-> r]
            ELSE [result |-> "error", reply |-> r]
       ELSE [result |-> "data", reply |-> r]

\* ------------------------------------------------------------------------
\* LoxoneTokenClient
\* ------------------------------------------------------------------------
\* int(time.time()) - 1230768000
CurrentTime == unixNow - LOXONE_EPOCH

InternalPcs == {"sc_entry", "ensure", "after_ensure", "refresh_check",
                "post_refresh", "struct_entry"}

\* No other task stands between two await points.
Quiet(t) == \A u \in Tasks \ {t} : task[u].pc \notin InternalPcs

IdleTask == [pc |-> "idle", stack |-> <<>>, attempt |-> 0, site |-> "top",
             ctx |-> "none", result |-> "none", reply |-> NoReply, calls |-> 0]

NoObs == [n401 |-> 0, reacquire |-> 0, getjwt |-> 0, dispatch |-> 0,
          reconnects |-> 0, refreshed |-> FALSE,
          remaining |-> 0, dispatchRefreshed |-> FALSE, dispatchToken |-> None,
          reauthToken |-> None, unprobed |-> "none",
          connBefore |-> FALSE, connAfter |-> FALSE]

Set(t, rec, g) ==
  /\ task' = [task EXCEPT ![t] = rec]
  /\ obs' = [obs EXCEPT ![t] = g]

\* A request leaves the client: note it when no probe has succeeded since
\* the connection was last opened or marked broken.
Sent(g, req, ok) == IF ok \/ g.unprobed # "none" THEN g ELSE [g EXCEPT !.unprobed = req]

Front(s) == SubSeq(s, 1, Len(s) - 1)

\* An exception of kind k leaves the innermost send_command frame.  stack
\* holds, innermost last, the place each nested frame was called from:
\* "try" (line 456, inside the try block) or "handler" (line 467, inside the
\* except clause).  Only a frame called from "try" has a caller that can
\* catch, and it catches NetworkError / TimeoutException alone (line 462);
\* except Exception (line 468) re-raises.
RECURSIVE Unwind(_, _)
Unwind(stack, k) ==
  IF stack = <<>> THEN [caught |-> FALSE, stack |-> <<>>]
  ELSE IF stack[Len(stack)] = "try" /\ k = "net"
       THEN [caught |-> TRUE, stack |-> Front(stack)]
       ELSE Unwind(Front(stack), k)

\* Lines 462-466: the except clause marks the connection broken and calls
\* _ensure_connection.
EnterHandler(t, rec, g) ==
  /\ Set(t, [rec EXCEPT !.pc = "ensure", !.site = "handler"],
            [g EXCEPT !.reconnects = @ + 1])
  /\ connected' = FALSE
  /\ probed' = FALSE

\* An exception of kind k escapes the current frame.
Escape(t, k, rec, g) ==
  LET u == Unwind(rec.stack, k) IN
  IF u.caught
  THEN EnterHandler(t, [rec EXCEPT !.stack = u.stack], g)
  ELSE /\ Set(t, [rec EXCEPT !.pc = "done", !.result = "error", !.stack = <<>>], g)
       /\ UNCHANGED <<connected, probed>>

\* ------------------------------------------------------------------------
\* LoxoneWebSocketClient: binary frames and the Gen 1 payload scan
\* ------------------------------------------------------------------------
\* A payload is cut in 8-byte words.  A word read as a little-endian double
\* is struct.unpack('<d', ...): word 0 is 0.0, word 1 is 1.0, word 2 is NaN.
\* Two consecutive words read as 16 UUID bytes are the UUID <<w1, w2>>.
Words == 0..2
Dec(w) == CASE w = 0 -> "0.0" [] w = 1 -> "1.0" [] OTHER -> "nan"
UuidOf(w1, w2) == <<w1, w2>>
UuidSpace == Words \X Words
NoValue == "None"            \* dict.get of an absent key

\* A binary frame: its length in bytes, the two header bytes the handler
\* reads, and the whole words of data[8:].
Frame(n, bt, id, ws) == [len |-> n, bin_type |-> bt, identifier |-> id, words |-> ws]

\* _is_valid_sensor_uuid, lines 341-345: str(uuid.UUID) has 36 characters.
is_valid_sensor_uuid(u) == u \in UuidSpace

\* _is_reasonable_sensor_value, lines 347-366, on the values a word decodes
\* to: NaN is refused (line 353), 0.0 and 1.0 are taken (line 358).
is_reasonable_sensor_value(v) ==
  IF v = "nan" THEN FALSE
  ELSE IF v \in {"0.0", "1.0"} THEN TRUE
  ELSE FALSE

\* A notification loop that stops after the first callback.
NotifyCallbacks_FirstOnly(cbs, dl, u, v) ==
  IF cbs = <<>> THEN dl
  ELSE [dl EXCEPT ![Head(cbs)] = Append(@, <<u, v>>)]

\* The subscribers whose callback raises an exception at every call (the
\* callback is called, line 315, and does not return).
Raises(c) == c = 1

\* A notification loop that an exception of a callback leaves.
RECURSIVE NotifyCallbacks_StopAtRaise(_, _, _, _)
NotifyCallbacks_StopAtRaise(cbs, dl, u, v) ==
  IF cbs = <<>> THEN dl
  ELSE LET called == [dl EXCEPT ![Head(cbs)] = Append(@, <<u, v>>)]
       IN IF Raises(Head(cbs)) THEN called
          ELSE NotifyCallbacks_StopAtRaise(Tail(cbs), called, u, v)

\* Lines 313-317: every entry of state_callbacks is called, in list order;
\* an exception of a callback is caught inside the loop (line 316), which
\* goes on with the next entry.
RECURSIVE NotifyCallbacks(_, _, _, _)
NotifyCallbacks(cbs, dl, u, v) ==
  IF cbs = <<>> THEN dl
  ELSE NotifyCallbacks(Tail(cbs), [dl EXCEPT ![Head(cbs)] = Append(@, <<u, v>>)], u, v)

\* A mirror that keeps the first value a UUID was given (dict.setdefault).
ApplyWindow_FirstWriterWins(sc, cbs, u, v) ==
  IF is_valid_sensor_uuid(u) /\ is_reasonable_sensor_value(v)
  THEN [states |-> IF sc.states[u] = NoValue THEN [sc.states EXCEPT ![u] = v]
                   ELSE sc.states,
        applied |-> IF sc.states[u] = v THEN sc.applied
                    ELSE Append(sc.applied, <<u, v>>),
        delivered |-> IF sc.states[u] # v
                      THEN NotifyCallbacks(cbs, sc.delivered, u, v)
                      ELSE sc.delivered]
  ELSE sc

\* Lines 296-317 for one 24-byte window.  sc carries the mirror, the log of
\* the changes of the mirror and what every callback was called with.
ApplyWindow(sc, cbs, u, v) ==
  IF is_valid_sensor_uuid(u) /\ is_reasonable_sensor_value(v)
  THEN LET old_value == sc.states[u] IN
       [states |-> [sc.states EXCEPT ![u] = v],
        applied |-> IF sc.states[u] = v THEN sc.applied
                    ELSE Append(sc.applied, <<u, v>>),
        delivered |-> IF old_value # v
                      THEN NotifyCallbacks(cbs, sc.delivered, u, v)
                      ELSE sc.delivered]
  ELSE sc

\* _try_parse_gen1_states, lines 280-323.  n is len(payload) in bytes.  The
\* slices of lines 285-286 have 16 and 8 bytes whenever the loop guard
\* holds, so uuid.UUID and struct.unpack do not raise and offset advances
\* by 8 (line 319) after every window.
RECURSIVE try_parse_gen1_states(_, _, _, _, _)
try_parse_gen1_states(payload, n, offset, sc, cbs) ==
  IF offset + 24 > n THEN sc
  ELSE LET i == (offset \div 8) + 1
           u == UuidOf(payload[i], payload[i + 1])
           v == Dec(payload[i + 2])
       IN try_parse_gen1_states(payload, n, offset + 8,
                                ApplyWindow(sc, cbs, u, v), cbs)

\* _try_parse_gen1_states, lines 283 and 319-323: the offsets at which the
\* loop reads a window of a payload of n bytes.  Line 319 is behind the
\* "if" of line 296, not inside it: an accepted and a rejected window both
\* advance the offset by 8; line 323 is reached by no payload.
RECURSIVE window_offsets(_, _)
window_offsets(n, offset) ==
  IF offset + 24 > n THEN {}
  ELSE {offset} \cup window_offsets(n, offset + 8)

\* A handler that scans only the payloads of the bulk and individual
\* identifiers.
handle_binary_message_ByIdentifier(f, sc, cbs) ==
  IF f.len >= 24 /\ f.identifier \in {245, 246, 94}
  THEN try_parse_gen1_states(f.words, f.len - 8, 0, sc, cbs)
  ELSE sc

\* _handle_binary_message, lines 238-270.
handle_binary_message(f, sc, cbs) ==
  IF f.len < 8 THEN sc
  ELSE LET any == IF f.len >= 24
                  THEN try_parse_gen1_states(f.words, f.len - 8, 0, sc, cbs)
                  ELSE sc
       IN IF f.identifier = 5 /\ f.bin_type = 209 THEN any
          ELSE IF f.identifier = 245 \/ f.identifier = 246
               THEN try_parse_gen1_states(f.words, f.len - 8, 0, any, cbs)
          ELSE IF f.identifier = 94
               THEN try_parse_gen1_states(f.words, f.len - 8, 0, any, cbs)
          ELSE any

\* get_state, lines 492-494.
get_state(u) == states[u]

\* A text message, by what _handle_text_message reads of it: what
\* json.loads makes of it ("invalid": JSONDecodeError; "unscannable":
\* another exception, RecursionError for a text of 100000 "[" or
\* ValueError for a number of 5000 digits; "object": a dict; "other": any
\* other JSON value), what its "LL" member is and what LL's "code" is.
Text(j, ll, c) == [json |-> j, ll |-> ll, code |-> c]
TextMessages ==
  {Text("invalid", "absent", "absent"), Text("unscannable", "absent", "absent"),
   Text("other", "absent", "absent"), Text("object", "absent", "absent"),
   Text("object", "object", "200"), Text("object", "object", "401"),
   Text("object", "object", "absent"), Text("object", "null", "absent")}

\* _handle_text_message, lines 219-234: "skipped" when the coroutine
\* returns, "raised" when an exception leaves it.  Only JSONDecodeError is
\* caught (line 232); data.get('LL', {}).get('code', '200') raises
\* AttributeError when LL is not a dict (line 228).
handle_text_message(m) ==
  IF m.json = "invalid" THEN "skipped"
  ELSE IF m.json = "unscannable" THEN "raised"
  ELSE IF m.json = "object" /\ m.ll # "absent"
       THEN IF m.ll = "object" THEN "skipped" ELSE "raised"
  ELSE "skipped"

\* No recv() has returned yet.
NoMessage == [kind |-> "none", frame |-> Frame(0, 0, 0, <<>>),
              text |-> Text("none", "absent", "absent")]

\* The frames the lifecycle specification receives: two values of one
\* UUID, a frame of 16 bytes and a frame shorter than its header.
LifecycleFrames ==
  {Frame(32, 0, 0, <<0, 0, 1>>), Frame(32, 0, 0, <<0, 0, 0>>),
   Frame(16, 0, 0, <<0>>), Frame(4, 0, 0, <<>>)}

\* The frames the scan specification receives: payloads of three and four
\* words (one and two 24-byte windows, the second overlapping the first)
\* under a plain, a bulk (0xf5) and an individual (0x5e) identifier, the
\* observed status frame (0xd1 / 0x05), and the two short frames.
ScanPayloads ==
  {<<a, a, c>> : a \in 0..1, c \in Words}
    \cup {<<a, a, c, d>> : a \in 0..1, c \in Words, d \in Words}
ScanFrames ==
  {Frame(8 + 8 * Len(ws), 0, id, ws) : ws \in ScanPayloads, id \in {0, 245, 94}}
    \cup {Frame(32, 209, 5, <<1, 1, 1>>), Frame(16, 0, 0, <<0>>), Frame(4, 0, 0, <<>>)}

\* ------------------------------------------------------------------------
\* LoxoneWebSocketClient: connect, close, the message handler, _reconnect
\* ------------------------------------------------------------------------
\* The owner is the coroutine that constructed the client (the token
\* client's start_realtime_monitoring / stop_realtime_monitoring); the
\* handlers are the tasks connect() creates (line 96).
Owner == 0
Handlers == 1..MaxHandlers
Actors == {Owner} \cup Handlers
Callbacks == 1..MaxCallbacks

\* pc: where the coroutine stands; cancel: task.cancel() was called on it;
\* via: what called connect() or close(); inRc: it is inside _reconnect.
NoActor == [pc |-> "none", cancel |-> FALSE, via |-> "none", inRc |-> FALSE]
\* token: the client's own self.token (line 75); authToken: the token of
\* the last authwithtoken command it composed (line 141).
NoWsObs == [ready |-> FALSE, lost |-> FALSE, failed |-> FALSE,
            reconnected |-> 0, ownerClosed |-> FALSE, closeRaised |-> FALSE,
            heldAtLoss |-> FALSE, token |-> None, authToken |-> None]

EmptyMirror == [u \in UuidSpace |-> NoValue]
Range(q) == {q[i] : i \in 1..Len(q)}

\* The handler's only location that is not an await point is the head of
\* its loop.
WsQuiet(a) == \A b \in Actors \ {a} : actor[b].pc # "loop"

\* A handler that called close() stands in asyncio.gather over a set of
\* tasks that holds the handler itself (lines 114-119): cancelling the
\* handler cancels the gather it waits for, which cancels the handler, ...;
\* the event loop reports RecursionError and never resumes the task.
Hung == {h \in Handlers : actor[h].pc = "hung"}

\* The state after __init__, lines 27-63.
WsStart ==
  /\ ws_websocket = "none"
  /\ ws_connected = FALSE
  /\ ws_authenticated = FALSE
  /\ running = FALSE
  /\ ws_tasks = {}
  /\ reconnect_count = 0
  /\ reconnecting = FALSE
  /\ states = EmptyMirror
  /\ state_callbacks = <<>>
  /\ actor = [a \in Actors |-> IF a = Owner THEN [NoActor EXCEPT !.pc = "new"]
                                ELSE NoActor]
  /\ framesDone = 0
  /\ applied = <<>>
  /\ delivered = [c \in Callbacks |-> <<>>]
  /\ joined = [c \in Callbacks |-> 0]
  /\ wsObs = NoWsObs
  /\ message = NoMessage

\* add_state_callback, lines 478-485.  A callback registers while it is not
\* registered (the token client registers one callback on a fresh client,
\* discover_sensors_automatically registers a new bound method and removes
\* it again).
add_state_callback(c) ==
  /\ WsQuiet(Owner)
  /\ c \notin Range(state_callbacks)
  /\ state_callbacks' = Append(state_callbacks, c)
  /\ joined' = [joined EXCEPT ![c] = Len(applied)]
  /\ delivered' = [delivered EXCEPT ![c] = <<>>]
  /\ UNCHANGED <<ws_websocket, ws_connected, ws_authenticated, running, ws_tasks,
                 reconnect_count, reconnecting, ws_max_reconnect_attempts,
                 states, actor, framesDone, applied, wsObs, message,
                 nonWsVars>>

\* list.remove: the first occurrence goes.
RECURSIVE RemoveFirst(_, _)
RemoveFirst(q, c) ==
  IF q = <<>> THEN <<>>
  ELSE IF Head(q) = c THEN Tail(q)
  ELSE <<Head(q)>> \o RemoveFirst(Tail(q), c)

\* remove_state_callback, lines 487-490.
remove_state_callback(c) ==
  /\ WsQuiet(Owner)
  /\ c \in Range(state_callbacks)
  /\ state_callbacks' = RemoveFirst(state_callbacks, c)
  /\ UNCHANGED <<ws_websocket, ws_connected, ws_authenticated, running, ws_tasks,
                 reconnect_count, reconnecting, ws_max_reconnect_attempts,
                 states, actor, framesDone, applied, delivered, joined, wsObs,
                 message, nonWsVars>>

\* The fields connect, close and _reconnect work on, as one record, so that
\* the code between two awaits composes as a function on it.
Cur == [websocket |-> ws_websocket, connected |-> ws_connected,
        authenticated |-> ws_authenticated, running |-> running,
        tasks |-> ws_tasks, reconnecting |-> reconnecting,
        states |-> states, actor |-> actor, obs |-> wsObs]

Commit(r) ==
  /\ ws_websocket' = r.websocket
  /\ ws_connected' = r.connected
  /\ ws_authenticated' = r.authenticated
  /\ running' = r.running
  /\ ws_tasks' = r.tasks
  /\ reconnecting' = r.reconnecting
  /\ states' = r.states
  /\ actor' = r.actor
  /\ wsObs' = r.obs

\* What the lifecycle code never writes.
lifecycleFrame == <<ws_max_reconnect_attempts, state_callbacks, framesDone,
                    applied, delivered, joined, message, nonWsVars>>

\* _reconnect, lines 531-535: the except clause returns False, the finally
\* clause clears the flag; _message_handler, lines 175-178 and 208: break.
reconnect_failed(a, r) ==
  [r EXCEPT !.reconnecting = FALSE, !.tasks = @ \ {a},
            !.actor[a].pc = "ended", !.actor[a].inRc = FALSE]

\* close() returned to its caller: the owner's close() is over, connect()
\* re-raises (line 105) to the owner or into _reconnect.
close_return(a, r) ==
  CASE r.actor[a].via = "close" -> [r EXCEPT !.actor[a].pc = "closed"]
    [] r.actor[a].via = "start" -> [r EXCEPT !.actor[a].pc = "idle"]
    [] OTHER -> reconnect_failed(a, r)

\* close() raised: task.cancel() of line 116 on a hung handler.
close_raise(a, r) ==
  CASE r.actor[a].via = "close" ->
         [r EXCEPT !.actor[a].pc = "closed", !.obs.closeRaised = TRUE]
    [] r.actor[a].via = "start" ->
         [r EXCEPT !.actor[a].pc = "idle", !.obs.closeRaised = TRUE]
    [] OTHER -> reconnect_failed(a, [r EXCEPT !.obs.closeRaised = TRUE])

\* close() that also resets the mirror.
close_end_clearing(a, r) ==
  close_return(a, [r EXCEPT !.connected = FALSE, !.authenticated = FALSE,
                            !.states = EmptyMirror])

\* close, lines 129-131.
close_end(a, r) ==
  close_return(a, [r EXCEPT !.connected = FALSE, !.authenticated = FALSE])

\* close, lines 120-125.
close_tail(a, r) ==
  LET r1 == [r EXCEPT !.tasks = {}] IN
  IF r1.websocket # "none" THEN [r1 EXCEPT !.actor[a].pc = "cl_wsclose"]
  ELSE close_end(a, r1)

\* close, lines 111-119, run by actor a: the set of states it can leave.
close_begin(a, r) ==
  LET r0 == [r EXCEPT !.running = FALSE]
      cancelled(S) == [b \in Actors |-> IF b \in S
                                        THEN [r0.actor[b] EXCEPT !.cancel = TRUE]
                                        ELSE r0.actor[b]]
  IN IF r0.tasks \cap Hung # {}
     THEN \* the tasks the loop reached before the hung one are cancelled
          {close_raise(a, [r0 EXCEPT !.actor = cancelled(S)]) :
             S \in SUBSET (r0.tasks \ Hung)}
     ELSE IF a \in r0.tasks
     THEN {[r0 EXCEPT !.actor = [cancelled(r0.tasks) EXCEPT ![a].pc = "hung"]]}
     ELSE IF r0.tasks # {}
     THEN {[r0 EXCEPT !.actor = [cancelled(r0.tasks) EXCEPT ![a].pc = "cl_gather"]]}
     ELSE {close_tail(a, r0)}

\* connect, lines 102-104: an await of the try block raised.
connect_failed(a, r) ==
  close_begin(a, [r EXCEPT !.obs.failed = @ \/ r.actor[a].via = "reconnect"])

\* The owner calls connect(self.token, self.username) on the fresh client
\* (token client line 544; lines 75-80): the client keeps the token it is
\* given.
OwnerConnect ==
  /\ WsQuiet(Owner)
  /\ actor[Owner].pc = "new"
  /\ Commit([Cur EXCEPT !.actor[Owner].pc = "c_open", !.actor[Owner].via = "start",
                        !.obs.token = token])
  /\ UNCHANGED <<reconnect_count, lifecycleFrame>>

\* The owner calls close() (token client lines 145, 552, 564).
OwnerClose ==
  /\ WsQuiet(Owner)
  /\ actor[Owner].pc = "idle"
  /\ \E r \in close_begin(Owner, [Cur EXCEPT !.actor[Owner].via = "close",
                                             !.obs.ownerClosed = TRUE]) : Commit(r)
  /\ UNCHANGED <<reconnect_count, lifecycleFrame>>

\* close, line 119: every task of the gather is done.
CloseGathered(a) ==
  /\ WsQuiet(a)
  /\ actor[a].pc = "cl_gather"
  /\ ws_tasks = {}
  /\ Commit(close_tail(a, Cur))
  /\ UNCHANGED <<reconnect_count, lifecycleFrame>>

\* close, lines 125-131: websocket.close() returned or raised (caught).
CloseSocketClosed(a) ==
  /\ WsQuiet(a)
  /\ actor[a].pc = "cl_wsclose"
  /\ Commit(close_end(a, [Cur EXCEPT !.websocket = IF @ = "none" THEN @ ELSE "closed"]))
  /\ UNCHANGED <<reconnect_count, lifecycleFrame>>

\* An actor may take the step that follows an await: it was not cancelled
\* while it waited, and no handler stands at the head of its loop.
Resumes(a, pc) == WsQuiet(a) /\ actor[a].pc = pc /\ ~actor[a].cancel

\* connect, lines 80-89 and _authenticate, lines 135-142: websockets.connect
\* returned or raised.
ConnectOpened(a) ==
  /\ Resumes(a, "c_open")
  /\ \/ Commit([Cur EXCEPT !.websocket = "open", !.connected = TRUE,
                           !.actor[a].pc = "c_auth",
                           !.obs.authToken = wsObs.token])
     \/ \E r \in connect_failed(a, Cur) : Commit(r)
  /\ UNCHANGED <<reconnect_count, lifecycleFrame>>

\* _authenticate, lines 142-147: the authwithtoken message was sent or the
\* send raised.
AuthSent(a) ==
  /\ Resumes(a, "c_auth")
  /\ \/ Commit([Cur EXCEPT !.actor[a].pc = "c_authsleep"])
     \/ \E r \in connect_failed(a, Cur) : Commit(r)
  /\ UNCHANGED <<reconnect_count, lifecycleFrame>>

\* _authenticate, lines 147-150, then _enable_status_updates and
\* _send_text_message, lines 156-164.
AuthSlept(a) ==
  /\ Resumes(a, "c_authsleep")
  /\ LET r == [Cur EXCEPT !.authenticated = TRUE] IN
     IF r.websocket = "none"
     THEN \E q \in connect_failed(a, r) : Commit(q)
     ELSE Commit([r EXCEPT !.actor[a].pc = "c_enable"])
  /\ UNCHANGED <<reconnect_count, lifecycleFrame>>

FreeHandlers == {h \in Handlers : actor[h].pc = "none"}

\* connect, lines 92-100: enablebinstatusupdate was sent, the handler task is
\* created and registered; or the send raised.  connect returns to the
\* owner, or into _reconnect (lines 528-529, 535) and from there to the
\* handler's "continue" (line 176).
StatusEnabled(a) ==
  /\ Resumes(a, "c_enable")
  /\ \/ /\ FreeHandlers # {}
        /\ LET h == CHOOSE x \in FreeHandlers : \A y \in FreeHandlers : x <= y
               r == [Cur EXCEPT !.running = TRUE, !.tasks = @ \cup {h},
                                !.actor[h] = [NoActor EXCEPT !.pc = "start"]]
           IN IF actor[a].via = "start"
              THEN Commit([r EXCEPT !.actor[a].pc = "idle", !.obs.ready = TRUE])
              ELSE Commit([r EXCEPT !.actor[a].pc = "loop", !.actor[a].inRc = FALSE,
                                    !.reconnecting = FALSE,
                                    !.obs.reconnected = @ + 1])
     \/ \E r \in connect_failed(a, Cur) : Commit(r)
  /\ UNCHANGED <<reconnect_count, lifecycleFrame>>

\* The event loop runs a new handler task for the first time.
HandlerStart(h) ==
  /\ Resumes(h, "start")
  /\ Commit([Cur EXCEPT !.actor[h].pc = "loop"])
  /\ UNCHANGED <<reconnect_count, lifecycleFrame>>

\* _message_handler, lines 172-185, and _reconnect, lines 502-524, up to the
\* next await.
HandlerLoop(h) ==
  /\ actor[h].pc = "loop"
  /\ IF ~running
     THEN /\ Commit([Cur EXCEPT !.actor[h].pc = "ended", !.tasks = @ \ {h}])
          /\ UNCHANGED reconnect_count
     ELSE IF ws_websocket = "none" \/ ~ws_connected
     THEN IF reconnecting
          THEN /\ Commit([Cur EXCEPT !.actor[h].pc = "ended", !.tasks = @ \ {h}])
               /\ UNCHANGED reconnect_count
          ELSE IF ws_max_reconnect_attempts # -1
                  /\ reconnect_count >= ws_max_reconnect_attempts
          THEN /\ Commit([Cur EXCEPT !.actor[h].pc = "ended", !.tasks = @ \ {h}])
               /\ UNCHANGED reconnect_count
          ELSE /\ reconnect_count' = reconnect_count + 1
               /\ Commit([Cur EXCEPT !.reconnecting = TRUE, !.actor[h].inRc = TRUE,
                                     !.actor[h].via = "reconnect",
                                     !.actor[h].pc = IF ws_websocket # "none"
                                                     THEN "rc_close" ELSE "rc_sleep"])
     ELSE /\ Commit([Cur EXCEPT !.actor[h].pc = "recv"])
          /\ UNCHANGED reconnect_count
  /\ UNCHANGED lifecycleFrame

\* _reconnect, lines 518-524: websocket.close() returned or raised (passed).
ReconnectClosed(h) ==
  /\ Resumes(h, "rc_close")
  /\ Commit([Cur EXCEPT !.websocket = "none", !.actor[h].pc = "rc_sleep"])
  /\ UNCHANGED <<reconnect_count, lifecycleFrame>>

\* _reconnect, lines 524-527: the delay is over; connect() runs to its
\* first await.
ReconnectSlept(h) ==
  /\ Resumes(h, "rc_sleep")
  /\ Commit([Cur EXCEPT !.actor[h].pc = "c_open"])
  /\ UNCHANGED <<reconnect_count, lifecycleFrame>>

\* A cancelled task is resumed with CancelledError, which no "except
\* Exception" catches: the finally clauses run (lines 535, 208) and the
\* done callback discards the task (line 98).
AwaitPcs == {"start", "recv", "keepalive", "rc_close", "rc_sleep",
             "c_open", "c_auth", "c_authsleep", "c_enable"}

Cancelled(h) ==
  /\ WsQuiet(h)
  /\ actor[h].cancel
  /\ actor[h].pc \in AwaitPcs
  /\ Commit([Cur EXCEPT !.actor[h].pc = "ended", !.actor[h].inRc = FALSE,
                        !.tasks = @ \ {h},
                        !.reconnecting = IF actor[h].inRc THEN FALSE ELSE @])
  /\ UNCHANGED <<reconnect_count, lifecycleFrame>>

\* _message_handler, lines 182-193: recv() returned a binary message on the
\* open connection; _handle_binary_message has no await that suspends.
RecvBinary(h, frames) ==
  /\ Resumes(h, "recv")
  /\ ws_websocket = "open"
  /\ framesDone < MaxFrames
  /\ \E f \in frames :
       LET sc == handle_binary_message(
                   f, [states |-> states, applied |-> applied,
                       delivered |-> delivered], state_callbacks)
       IN /\ states' = sc.states
          /\ applied' = sc.applied
          /\ delivered' = sc.delivered
          /\ message' = [NoMessage EXCEPT !.kind = "binary", !.frame = f]
  /\ framesDone' = framesDone + 1
  /\ reconnect_count' = 0
  /\ actor' = [actor EXCEPT ![h].pc = "loop"]
  /\ UNCHANGED <<ws_websocket, ws_connected, ws_authenticated, running, ws_tasks,
                 reconnecting, ws_max_reconnect_attempts, state_callbacks,
                 joined, wsObs, nonWsVars>>

\* Lines 189-193 and 202-204: a text message.  When _handle_text_message
\* returns, reconnect_count is reset; an exception that leaves it is caught
\* by "except Exception", which marks the connection broken.
RecvText(h) ==
  /\ Resumes(h, "recv")
  /\ ws_websocket = "open"
  /\ \E m \in TextMessages :
       /\ message' = [NoMessage EXCEPT !.kind = "text", !.text = m]
       /\ IF handle_text_message(m) = "skipped"
          THEN /\ reconnect_count' = 0
               /\ Commit([Cur EXCEPT !.actor[h].pc = "loop"])
          ELSE /\ UNCHANGED reconnect_count
               /\ Commit([Cur EXCEPT !.connected = FALSE, !.obs.lost = TRUE,
                                     !.obs.heldAtLoss = @ \/ states # EmptyMirror,
                                     !.actor[h].pc = "loop"])
  /\ UNCHANGED <<ws_max_reconnect_attempts, state_callbacks, framesDone,
                 applied, delivered, joined, nonWsVars>>

\* Lines 195-197 and 211-217, 161-164: no message for 30 s; the keepalive is
\* sent unless the websocket field is None (ConnectionError, caught).
RecvTimeout(h) ==
  /\ Resumes(h, "recv")
  /\ Commit([Cur EXCEPT !.actor[h].pc = IF ws_websocket = "none" THEN "loop"
                                        ELSE "keepalive"])
  /\ message' = [NoMessage EXCEPT !.kind = "timeout"]
  /\ UNCHANGED reconnect_count
  /\ UNCHANGED <<ws_max_reconnect_attempts, state_callbacks, framesDone,
                 applied, delivered, joined, nonWsVars>>

\* Lines 214-217: the keepalive was sent, or the send raised (caught).
KeepaliveSent(h) ==
  /\ Resumes(h, "keepalive")
  /\ Commit([Cur EXCEPT !.actor[h].pc = "loop"])
  /\ UNCHANGED <<reconnect_count, lifecycleFrame>>

\* Lines 198-201: recv() raised ConnectionClosed.
RecvClosed(h) ==
  /\ Resumes(h, "recv")
  /\ Commit([Cur EXCEPT !.websocket = IF @ = "none" THEN @ ELSE "closed",
                        !.connected = FALSE, !.authenticated = FALSE,
                        !.obs.lost = TRUE,
                        !.obs.heldAtLoss = @ \/ states # EmptyMirror,
                        !.actor[h].pc = "loop"])
  /\ message' = [NoMessage EXCEPT !.kind = "closed"]
  /\ UNCHANGED reconnect_count
  /\ UNCHANGED <<ws_max_reconnect_attempts, state_callbacks, framesDone,
                 applied, delivered, joined, nonWsVars>>

\* Lines 202-204: recv() or a message handler raised another exception.
RecvError(h) ==
  /\ Resumes(h, "recv")
  /\ Commit([Cur EXCEPT !.connected = FALSE, !.obs.lost = TRUE,
                        !.obs.heldAtLoss = @ \/ states # EmptyMirror,
                        !.actor[h].pc = "loop"])
  /\ message' = [NoMessage EXCEPT !.kind = "error"]
  /\ UNCHANGED reconnect_count
  /\ UNCHANGED <<ws_max_reconnect_attempts, state_callbacks, framesDone,
                 applied, delivered, joined, nonWsVars>>

HttpStart ==
  /\ connected = FALSE
  /\ token = None
  /\ key = FALSE
  /\ token_valid_until = None
  /\ structure = FALSE
  /\ reconnection_event = TRUE
  /\ task = [t \in Tasks |-> IdleTask]
  /\ unixNow = StartUnix
  /\ issued = 0
  /\ obs = [t \in Tasks |-> NoObs]
  /\ probed = FALSE
  /\ closing = [pc |-> "open", held |-> None, kills |-> <<>>, outcome |-> "None",
                log |-> "None", returned |-> [token |-> None, connected |-> FALSE]]

Tick ==
  /\ unixNow < StartUnix + MaxTicks * TickStep
  /\ \A u \in Tasks : task[u].pc \notin InternalPcs
  /\ unixNow' = unixNow + TickStep
  /\ UNCHANGED <<connected, token, key, token_valid_until, structure,
                 reconnection_event, max_reconnect_attempts, task,
                 issued, obs, probed, nonHttpVars>>

\* A caller starts send_command (or starts the next one after the last ended).
Call(t) ==
  /\ Quiet(t)
  /\ task[t].pc \in {"idle", "done"}
  /\ task[t].calls < MaxCalls
  /\ Set(t, [IdleTask EXCEPT !.pc = "sc_entry", !.calls = task[t].calls + 1], NoObs)
  /\ UNCHANGED <<connected, token, key, token_valid_until, structure,
                 reconnection_event, max_reconnect_attempts,
                 unixNow, issued, probed, nonHttpVars>>

\* send_command, lines 426-431: entry of a frame.
SendCommandEntry(t) ==
  /\ Quiet(t)
  /\ task[t].pc = "sc_entry"
  /\ IF ~connected
     THEN Set(t, [task[t] EXCEPT !.pc = "ensure", !.site = "top"],
                 [obs[t] EXCEPT !.refreshed = FALSE])
     ELSE Set(t, [task[t] EXCEPT !.pc = "refresh_check", !.ctx = "refresh_cmd"],
                 [obs[t] EXCEPT !.refreshed = FALSE])
  /\ UNCHANGED <<connected, token, key, token_valid_until, structure,
                 reconnection_event, max_reconnect_attempts,
                 unixNow, issued, probed, nonHttpVars>>

\* A refresh policy without the margin: refresh only an expired token.
NeedsRefresh_NoMargin(now, valid_until) == now >= valid_until

\* _refresh_token_if_needed, line 391: the token expires within 5 minutes.
NeedsRefresh(now, valid_until) == now + REFRESH_MARGIN >= valid_until

\* Lines 382 and 433: "not self.token or not self.key [or not valid_until]".
NoToken == token = None \/ ~key
NoTokenOrExpiry == NoToken \/ token_valid_until = None

\* A failed connect() that leaves the event cleared (no finally clause).
ConnectFail_NoRelease(t, k, rec, g) ==
  LET a == rec.attempt + 1 IN
  IF a < max_reconnect_attempts
  THEN /\ Set(t, [rec EXCEPT !.attempt = a, !.pc = "sleep"], g)
       /\ UNCHANGED <<connected, probed, reconnection_event>>
  ELSE /\ UNCHANGED reconnection_event
       /\ Escape(t, k, [rec EXCEPT !.attempt = a], g)

\* connect, lines 123-135: an attempt failed with an exception of kind k.
\* Below the limit the loop sleeps and tries again; at the limit connect
\* re-raises, _ensure_connection sets the event (line 593) and the exception
\* leaves the send_command frame (both calls of _ensure_connection are
\* outside the try block's reach).
ConnectFail(t, k, rec, g) ==
  LET a == rec.attempt + 1 IN
  IF a < max_reconnect_attempts
  THEN /\ Set(t, [rec EXCEPT !.attempt = a, !.pc = "sleep"], g)
       /\ UNCHANGED <<connected, probed, reconnection_event>>
  ELSE /\ reconnection_event' = TRUE
       /\ Escape(t, k, [rec EXCEPT !.attempt = a], g)

\* _acquire_token raised (line 290) an exception of kind k.  Called in the
\* else branch of _refresh_token_if_needed (line 410, inside the try block),
\* the exception is caught at line 412 and _acquire_token is called once
\* more (line 414).
AcquireFail(t, k, rec, g) ==
  CASE rec.ctx \in {"refresh_cmd_else", "refresh_struct_else"} ->
         /\ Set(t, [rec EXCEPT !.pc = "getkey2",
                               !.ctx = IF rec.ctx = "refresh_cmd_else"
                                       THEN "refresh_cmd" ELSE "refresh_struct"],
                   Sent(g, "getkey2", probed))
         /\ UNCHANGED <<connected, probed, reconnection_event>>
    [] rec.ctx \in {"connect", "refresh_struct"} -> ConnectFail(t, k, rec, g)
    [] rec.ctx = "refresh_cmd" ->
         Escape(t, k, rec, g) /\ UNCHANGED reconnection_event
    [] rec.ctx = "reauth401" ->
         /\ IF k = "net" THEN EnterHandler(t, rec, g) ELSE Escape(t, k, rec, g)
         /\ UNCHANGED reconnection_event

\* _ensure_connection, lines 574-593, up to its first await.
Ensure(t) ==
  /\ Quiet(t)
  /\ task[t].pc = "ensure"
  /\ IF ~reconnection_event
     THEN /\ Set(t, [task[t] EXCEPT !.pc = "ens_wait"], obs[t])
          /\ UNCHANGED <<reconnection_event, probed>>
     ELSE IF connected
     THEN /\ Set(t, [task[t] EXCEPT !.pc = "ens_probe"], obs[t])
          /\ UNCHANGED <<reconnection_event, probed>>
     ELSE \* connect(): attempt = 0; while attempt < max_reconnect_attempts
          IF 0 < max_reconnect_attempts
          THEN /\ Set(t, [task[t] EXCEPT !.pc = "probe", !.attempt = 0], obs[t])
               /\ reconnection_event' = FALSE
               /\ probed' = FALSE
          ELSE /\ Set(t, [task[t] EXCEPT !.pc = "after_ensure", !.attempt = 0], obs[t])
               /\ reconnection_event' = TRUE
               /\ probed' = FALSE
  /\ UNCHANGED <<connected, token, key, token_valid_until, structure,
                 max_reconnect_attempts, unixNow, issued, nonHttpVars>>

\* _ensure_connection, line 576: the reconnection another task runs has ended.
EnsureWait(t) ==
  /\ Quiet(t)
  /\ task[t].pc = "ens_wait"
  /\ reconnection_event
  /\ Set(t, [task[t] EXCEPT !.pc = "after_ensure"], obs[t])
  /\ UNCHANGED <<connected, token, key, token_valid_until, structure,
                 reconnection_event, max_reconnect_attempts,
                 unixNow, issued, probed, nonHttpVars>>

\* _ensure_connection, lines 579-586: the liveness probe of a client that
\* believes it is connected.
EnsureProbeReply(t) ==
  /\ Quiet(t)
  /\ task[t].pc = "ens_probe"
  /\ \E o \in Outcomes :
       IF o = "ok"
       THEN /\ Set(t, [task[t] EXCEPT !.pc = "after_ensure"], obs[t])
            /\ probed' = TRUE
            /\ UNCHANGED <<connected, reconnection_event>>
       ELSE /\ connected' = FALSE
            /\ probed' = FALSE
            /\ IF 0 < max_reconnect_attempts
               THEN /\ Set(t, [task[t] EXCEPT !.pc = "probe", !.attempt = 0], obs[t])
                    /\ reconnection_event' = FALSE
               ELSE /\ Set(t, [task[t] EXCEPT !.pc = "after_ensure", !.attempt = 0], obs[t])
                    /\ reconnection_event' = TRUE
  /\ UNCHANGED <<token, key, token_valid_until, structure,
                 max_reconnect_attempts, unixNow, issued, nonHttpVars>>

\* connect, line 103: the reply to GET /jdev/cfg/apiKey; on success
\* _acquire_token sends getkey2 (use_encryption is False, line 69).
ProbeReply(t) ==
  /\ Quiet(t)
  /\ task[t].pc = "probe"
  /\ \E o \in Outcomes :
       IF o = "ok"
       THEN /\ Set(t, [task[t] EXCEPT !.pc = "getkey2", !.ctx = "connect"],
                      Sent(obs[t], "getkey2", TRUE))
            /\ probed' = TRUE
            /\ UNCHANGED <<connected, reconnection_event>>
       ELSE ConnectFail(t, o, task[t], obs[t])
  /\ UNCHANGED <<token, key, token_valid_until, structure,
                 max_reconnect_attempts, unixNow, issued, nonHttpVars>>

\* connect, line 130: asyncio.sleep(reconnect_delay) is over; next attempt.
Sleep(t) ==
  /\ Quiet(t)
  /\ task[t].pc = "sleep"
  /\ Set(t, [task[t] EXCEPT !.pc = "probe"], obs[t])
  /\ UNCHANGED <<connected, token, key, token_valid_until, structure,
                 reconnection_event, max_reconnect_attempts,
                 unixNow, issued, probed, nonHttpVars>>

\* _acquire_token, lines 222-270: the reply to getkey2; on code 200 the
\* client computes the hmac and sends getjwt.
Getkey2Reply(t) ==
  /\ Quiet(t)
  /\ task[t].pc = "getkey2"
  /\ \E o \in Outcomes :
       IF o = "ok"
       THEN /\ Set(t, [task[t] EXCEPT !.pc = "getjwt"],
                      Sent([obs[t] EXCEPT !.getjwt = @ + 1], "getjwt", probed))
            /\ UNCHANGED <<connected, probed, reconnection_event>>
       ELSE AcquireFail(t, o, task[t], obs[t])
  /\ UNCHANGED <<token, key, token_valid_until, structure,
                 max_reconnect_attempts, unixNow, issued, nonHttpVars>>

\* Where _acquire_token returns to.
AcquireDone(t, rec, g, tok) ==
  CASE rec.ctx = "connect" -> Set(t, [rec EXCEPT !.pc = "struct_entry"], g)
    [] rec.ctx \in {"refresh_cmd", "refresh_struct"} ->
         Set(t, [rec EXCEPT !.pc = "post_refresh"], [g EXCEPT !.refreshed = TRUE])
    [] rec.ctx \in {"refresh_cmd_else", "refresh_struct_else"} ->
         Set(t, [rec EXCEPT !.pc = "post_refresh",
                            !.ctx = IF rec.ctx = "refresh_cmd_else"
                                    THEN "refresh_cmd" ELSE "refresh_struct"],
                [g EXCEPT !.refreshed = TRUE])
    [] rec.ctx = "reauth401" ->
         \* line 456: return await self.send_command(command)
         Set(t, [rec EXCEPT !.pc = "sc_entry", !.stack = Append(@, "try")],
                [g EXCEPT !.reauthToken = tok])

\* _acquire_token, lines 270-281: the reply to getjwt.
GetjwtReply(t) ==
  /\ Quiet(t)
  /\ task[t].pc = "getjwt"
  /\ \E o \in Outcomes :
       IF o = "ok"
       THEN /\ issued < MaxIssued
            /\ \E life \in Lifetimes :
                 /\ token' = issued + 1
                 /\ token_valid_until' = CurrentTime + life
            /\ issued' = issued + 1
            /\ key' = TRUE
            /\ AcquireDone(t, task[t], obs[t], issued + 1)
            /\ UNCHANGED <<connected, probed, reconnection_event>>
       ELSE /\ AcquireFail(t, o, task[t], obs[t])
            /\ UNCHANGED <<token, key, token_valid_until, issued>>
  /\ UNCHANGED <<structure, max_reconnect_attempts, unixNow, nonHttpVars>>

\* get_structure_file, lines 474-475, and the end of connect, lines 115-121.
StructEntry(t) ==
  /\ Quiet(t)
  /\ task[t].pc = "struct_entry"
  /\ IF structure
     THEN /\ Set(t, [task[t] EXCEPT !.pc = "after_ensure"], obs[t])
          /\ connected' = TRUE
          /\ reconnection_event' = TRUE
     ELSE /\ Set(t, [task[t] EXCEPT !.pc = "refresh_check", !.ctx = "refresh_struct"], obs[t])
          /\ UNCHANGED <<connected, reconnection_event>>
  /\ UNCHANGED <<token, key, token_valid_until, structure,
                 max_reconnect_attempts, unixNow, issued, probed, nonHttpVars>>

\* _refresh_token_if_needed, lines 382-399, up to its first await.
RefreshCheck(t) ==
  /\ Quiet(t)
  /\ task[t].pc = "refresh_check"
  /\ IF NoTokenOrExpiry
     THEN Set(t, [task[t] EXCEPT !.pc = "getkey2"], Sent(obs[t], "getkey2", probed))
     ELSE IF NeedsRefresh(CurrentTime, token_valid_until)
     THEN Set(t, [task[t] EXCEPT !.pc = "refreshjwt"], Sent(obs[t], "refreshjwt", probed))
     ELSE Set(t, [task[t] EXCEPT !.pc = "post_refresh"], obs[t])
  /\ UNCHANGED <<connected, token, key, token_valid_until, structure,
                 reconnection_event, max_reconnect_attempts,
                 unixNow, issued, probed, nonHttpVars>>

\* A refresh that keeps the old token when refreshjwt did not succeed.
RefreshFallThrough_KeepToken(t, ctx) ==
  Set(t, [task[t] EXCEPT !.pc = "post_refresh"], obs[t])

\* _refresh_token_if_needed, lines 408-414: the refresh did not succeed and
\* _acquire_token is called (its getkey2 request leaves); ctx tells from
\* which of the two places.
RefreshFallThrough(t, ctx) ==
  Set(t, [task[t] EXCEPT !.pc = "getkey2", !.ctx = ctx],
         Sent(obs[t], "getkey2", probed))

\* _refresh_token_if_needed, lines 399-414: the reply to refreshjwt.  Code
\* 200 replaces the token and its expiry; another code ("code") acquires
\* anew inside the try block, a failed request or an unreadable reply in
\* the except clause.
RefreshReply(t) ==
  /\ Quiet(t)
  /\ task[t].pc = "refreshjwt"
  /\ \E o \in Outcomes \cup {"code"} :
       IF o = "ok"
       THEN /\ issued < MaxIssued
            /\ \E life \in Lifetimes :
                 /\ token' = issued + 1
                 /\ token_valid_until' = CurrentTime + life
            /\ issued' = issued + 1
            /\ Set(t, [task[t] EXCEPT !.pc = "post_refresh"],
                      [obs[t] EXCEPT !.refreshed = TRUE])
       ELSE /\ RefreshFallThrough(t, IF o = "code" THEN task[t].ctx \o "_else"
                                      ELSE task[t].ctx)
            /\ UNCHANGED <<token, token_valid_until, issued>>
  /\ UNCHANGED <<connected, key, structure, reconnection_event,
                 max_reconnect_attempts, unixNow, probed, nonHttpVars>>

\* After _refresh_token_if_needed: send_command lines 433-446 dispatch the
\* command, get_structure_file lines 480-487 request the structure file.
PostRefresh(t) ==
  /\ Quiet(t)
  /\ task[t].pc = "post_refresh"
  /\ IF NoToken
     THEN IF task[t].ctx = "refresh_cmd"
          THEN Escape(t, "other", task[t], obs[t]) /\ UNCHANGED reconnection_event
          ELSE ConnectFail(t, "other", task[t], obs[t])
     ELSE /\ IF task[t].ctx = "refresh_cmd"
             THEN Set(t, [task[t] EXCEPT !.pc = "dispatch"],
                         Sent([obs[t] EXCEPT !.dispatch = @ + 1,
                                 !.remaining = token_valid_until - CurrentTime,
                                 !.dispatchRefreshed = obs[t].refreshed,
                                 !.dispatchToken = token],
                              "command", probed))
             ELSE Set(t, [task[t] EXCEPT !.pc = "structure"],
                         Sent(obs[t], "structure", probed))
          /\ UNCHANGED <<connected, probed, reconnection_event>>
  /\ UNCHANGED <<token, key, token_valid_until, structure,
                 max_reconnect_attempts, unixNow, issued, nonHttpVars>>

\* get_structure_file, lines 487-494, then connect, lines 115-121.
StructureReply(t) ==
  /\ Quiet(t)
  /\ task[t].pc = "structure"
  /\ \E o \in Outcomes :
       IF o = "ok"
       THEN /\ structure' = TRUE
            /\ connected' = TRUE
            /\ reconnection_event' = TRUE
            /\ Set(t, [task[t] EXCEPT !.pc = "after_ensure"], obs[t])
            /\ UNCHANGED probed
       ELSE /\ ConnectFail(t, o, task[t], obs[t])
            /\ UNCHANGED structure
  /\ UNCHANGED <<token, key, token_valid_until, max_reconnect_attempts,
                 unixNow, issued, nonHttpVars>>

\* _ensure_connection returned: line 431 follows the call of line 429, the
\* nested send_command of line 467 follows the call of line 466.
AfterEnsure(t) ==
  /\ Quiet(t)
  /\ task[t].pc = "after_ensure"
  /\ IF task[t].site = "top"
     THEN Set(t, [task[t] EXCEPT !.pc = "refresh_check", !.ctx = "refresh_cmd"], obs[t])
     ELSE Set(t, [task[t] EXCEPT !.pc = "sc_entry", !.stack = Append(@, "handler")], obs[t])
  /\ UNCHANGED <<connected, token, key, token_valid_until, structure,
                 reconnection_event, max_reconnect_attempts,
                 unixNow, issued, probed, nonHttpVars>>

\* send_command, lines 446-470: the reply to the command GET.
HandleReply(t, r) ==
  LET rec == [task[t] EXCEPT !.reply = r]
      g == [obs[t] EXCEPT !.connBefore = connected] IN
  CASE r.kind = "net" ->
         EnterHandler(t, rec, [g EXCEPT !.connAfter = FALSE])
    [] r.kind = "status5xx" ->
         Escape(t, "other", rec, [g EXCEPT !.connAfter = connected])
    [] r.kind = "body" /\ DictGet(r, "code") = "401" ->
         \* line 454: await self._acquire_token()
         /\ Set(t, [rec EXCEPT !.pc = "getkey2", !.ctx = "reauth401"],
                   Sent([g EXCEPT !.n401 = @ + 1, !.reacquire = @ + 1,
                           !.getjwt = IF g.n401 = 0 THEN 0 ELSE @,
                           !.connAfter = connected],
                        "getkey2", probed))
         /\ UNCHANGED <<connected, probed>>
    [] OTHER ->
         \* line 460: return data.get("LL", {}).get("value")
         /\ Set(t, [rec EXCEPT !.pc = "done", !.result = "value", !.stack = <<>>],
                   [g EXCEPT !.connAfter = connected])
         /\ UNCHANGED <<connected, probed>>

\* A reply that makes send_command call itself is explored only while
\* fewer than MaxDepth nested frames are open.
Nests(r) == r.kind = "net" \/ (r.kind = "body" /\ DictGet(r, "code") = "401")

DispatchReply(t) ==
  /\ Quiet(t)
  /\ task[t].pc = "dispatch"
  /\ \E r \in CommandReplies :
       /\ Nests(r) => Len(task[t].stack) < MaxDepth
       /\ HandleReply(t, r)
  /\ UNCHANGED <<token, key, token_valid_until, structure, reconnection_event,
                 max_reconnect_attempts, unixNow, issued, nonHttpVars>>

\* An outcome _kill_token lets escape to close().
kill_token_Raises(outcome) ==
  IF outcome = "200" THEN [raised |-> FALSE, log |-> "info: Token invalidated successfully"]
  ELSE [raised |-> TRUE, log |-> "None"]

\* _kill_token, lines 303-321, after the request: every status and every
\* exception ends in a log line and a return.
kill_token(outcome) ==
  CASE outcome = "200" -> [raised |-> FALSE, log |-> "info: Token invalidated successfully"]
    [] outcome = "401" -> [raised |-> FALSE, log |-> "debug: Token already invalid or expired"]
    [] outcome = "timeout" -> [raised |-> FALSE, log |-> "warning: Token invalidation timed out"]
    [] outcome = "error" -> [raised |-> FALSE, log |-> "warning: Failed to invalidate token"]
    [] OTHER -> [raised |-> FALSE, log |-> "warning: Token invalidation returned " \o outcome]

\* close, lines 137-168, and _kill_token, lines 292-302, up to the await of
\* the killtoken reply.  No WebSocket client is attached.  Without a token
\* (or without its key) nothing is awaited before aclose, and close runs to
\* its end: aclose fails what is in flight on the client and the finally
\* clause clears connected.
Close ==
  /\ closing.pc = "open"
  /\ \A u \in Tasks : task[u].pc \notin InternalPcs
  /\ IF token # None /\ key
     THEN /\ closing' = [closing EXCEPT !.pc = "killtoken", !.held = token,
                            !.kills = Append(@, [token |-> token, timeout |-> 5])]
          /\ UNCHANGED <<connected, token, key>>
     ELSE /\ token' = None
          /\ key' = IF token # None THEN FALSE ELSE key
          /\ connected' = FALSE
          /\ closing' = [closing EXCEPT !.pc = "closed", !.held = token,
                            !.returned = [token |-> None, connected |-> FALSE]]
  /\ UNCHANGED <<token_valid_until, structure, reconnection_event,
                 max_reconnect_attempts, task, unixNow, issued, obs, probed,
                 wsVars, lgVars, discovery, server>>

\* close, lines 155-168, from the return of _kill_token on: the token and
\* the key are cleared unless _kill_token raised, the HTTP client is closed
\* and connected is cleared.
KillTokenReply(outcome) ==
  /\ closing.pc = "killtoken"
  /\ \A u \in Tasks : task[u].pc \notin InternalPcs
  /\ token' = IF kill_token(outcome).raised THEN token ELSE None
  /\ key' = IF kill_token(outcome).raised THEN key ELSE FALSE
  /\ connected' = FALSE
  /\ closing' = [closing EXCEPT !.pc = "closed", !.outcome = outcome,
                    !.log = kill_token(outcome).log,
                    !.returned = [token |-> token', connected |-> FALSE]]
  /\ UNCHANGED <<token_valid_until, structure, reconnection_event,
                 max_reconnect_attempts, task, unixNow, issued, obs, probed,
                 wsVars, lgVars, discovery, server>>

HttpNext ==
  \/ Tick
  \/ \E t \in {1} :
       \/ Call(t)
       \/ SendCommandEntry(t)
       \/ Ensure(t)
       \/ ProbeReply(t)
       \/ Sleep(t)
       \/ Getkey2Reply(t)
       \/ GetjwtReply(t)
       \/ StructEntry(t)
       \/ RefreshCheck(t)
       \/ RefreshReply(t)
       \/ PostRefresh(t)
       \/ StructureReply(t)
       \/ AfterEnsure(t)
       \/ DispatchReply(t)
  \/ Close
  \/ \E outcome \in {"200", "401", "500", "timeout", "error"} : KillTokenReply(outcome)

\* ------------------------------------------------------------------------
\* SensorStateLogger: ring buffers, load, periodic sync, shutdown
\* ------------------------------------------------------------------------
\* An event in memory is its timestamp (the claims read nothing else of a
\* StateChangeEvent).  In the file a sensor record and an event carry
\* "fields": "ok", "unknown" (a key the dataclass does not have) or
\* "missing" (a key the code reads is absent).
LgUuids == 1..3
LgStartTime == MaxLgTicks + 1

\* q[-n:] of a Python list: the whole list when n = 0.
PySuffix(q, n) ==
  IF n = 0 \/ Len(q) <= n THEN q ELSE SubSeq(q, Len(q) - n + 1, Len(q))

\* A buffer that never drops an event.
DequeAppend_Unbounded(q, e, n) == Append(q, e)

\* deque(maxlen = n).append(e): the oldest entry leaves a full deque.
DequeAppend(q, e, n) ==
  IF n = 0 THEN <<>>
  ELSE IF Len(q) < n THEN Append(q, e)
  ELSE Append(Tail(q), e)

\* _load_existing_logs, lines 122-146: the loop over the sensor records of
\* the file.  StateChangeEvent(**event_data) raises TypeError for an event
\* with an unknown or a missing key (line 135), history_data["uuid"] raises
\* KeyError (line 139); the one except clause (line 151) is outside the
\* loop, so the exception ends the load with what was stored before.
RECURSIVE load_sensors(_, _)
load_sensors(recs, hist) ==
  IF recs = <<>> \/ Len(hist) >= MaxSensors THEN hist
  ELSE LET r == Head(recs)
           events_data == PySuffix(r.state_events, MaxEventsPerSensor)
           events == IF MaxEventsPerSensor = 0 THEN <<>>
                     ELSE [i \in 1..Len(events_data) |-> events_data[i].timestamp]
       IN IF \E i \in 1..Len(events_data) : events_data[i].fields # "ok"
          THEN hist
          ELSE IF r.fields = "missing" THEN hist
          ELSE load_sensors(Tail(recs),
                            Append(hist, [uuid |-> r.uuid,
                                          last_updated |-> r.last_updated,
                                          state_events |-> events]))

\* _load_existing_logs, lines 111-152: a missing file (line 113) and a file
\* json.load cannot read (line 119, caught at line 151) load nothing.
load_existing_logs(f) ==
  IF f.kind = "json" THEN load_sensors(f.sensors, <<>>) ELSE <<>>

\* A limit that makes room by dropping the sensor updated last.
log_state_change_EvictNewest(hist, u, current_time) ==
  LET known == \E i \in 1..Len(hist) : hist[i].uuid = u
      newest == CHOOSE i \in 1..Len(hist) :
                  \A j \in 1..Len(hist) :
                    \/ hist[i].last_updated > hist[j].last_updated
                    \/ hist[i].last_updated = hist[j].last_updated /\ i >= j
      kept == IF Len(hist) >= MaxSensors
              THEN SubSeq(hist, 1, newest - 1) \o SubSeq(hist, newest + 1, Len(hist))
              ELSE hist
  IN IF known
     THEN [i \in 1..Len(hist) |->
             IF hist[i].uuid = u
             THEN [hist[i] EXCEPT !.last_updated = current_time,
                                  !.state_events =
                                     DequeAppend(@, current_time, MaxEventsPerSensor)]
             ELSE hist[i]]
     ELSE Append(kept, [uuid |-> u, last_updated |-> current_time,
                        state_events |->
                          DequeAppend(<<>>, current_time, MaxEventsPerSensor)])

\* log_state_change, lines 163-207, on the dict in insertion order: at the
\* limit the first sensor with the smallest last_updated makes room for a
\* new UUID (min over the keys); the event joins the ring of its sensor.
log_state_change(hist, u, current_time) ==
  LET known == \E i \in 1..Len(hist) : hist[i].uuid = u
      oldest == CHOOSE i \in 1..Len(hist) :
                  \A j \in 1..Len(hist) :
                    \/ hist[i].last_updated < hist[j].last_updated
                    \/ hist[i].last_updated = hist[j].last_updated /\ i <= j
      kept == IF Len(hist) >= MaxSensors
              THEN SubSeq(hist, 1, oldest - 1) \o SubSeq(hist, oldest + 1, Len(hist))
              ELSE hist
  IN IF known
     THEN [i \in 1..Len(hist) |->
             IF hist[i].uuid = u
             THEN [hist[i] EXCEPT !.last_updated = current_time,
                                  !.state_events =
                                     DequeAppend(@, current_time, MaxEventsPerSensor)]
             ELSE hist[i]]
     ELSE Append(kept, [uuid |-> u, last_updated |-> current_time,
                        state_events |->
                          DequeAppend(<<>>, current_time, MaxEventsPerSensor)])

\* persist_logs, lines 249-276: open(self.log_file, "w") truncates the log
\* file itself and json.dump writes into it.  "ok": the document was
\* written; "open_fails": open raised, the file is as it was; "write_fails":
\* the write raised part-way (the except clause logs, the caller learns
\* nothing); "killed": the process stopped part-way.
WriteOutcomes == {"ok", "open_fails", "write_fails", "killed"}
persist_logs(f, hist, outcome) ==
  CASE outcome = "ok" ->
         [kind |-> "json",
          sensors |-> [i \in 1..Len(hist) |->
                         [uuid |-> hist[i].uuid, fields |-> "ok",
                          last_updated |-> hist[i].last_updated,
                          state_events |->
                            [j \in 1..Len(hist[i].state_events) |->
                               [timestamp |-> hist[i].state_events[j],
                                fields |-> "ok"]]]]]
    [] outcome = "open_fails" -> f
    [] OTHER -> [kind |-> "partial", sensors |-> <<>>]

\* The files a constructor may find: none; one that is not JSON; a log of
\* one sensor; a log over both limits whose second sensor carries an
\* unknown key; a log whose first sensor lacks a key; a log whose first
\* sensor has an event with an unknown key; a log whose events are out of
\* order.
InitialFiles ==
  LET E(t) == [timestamp |-> t, fields |-> "ok"]
      X(t) == [timestamp |-> t, fields |-> "unknown"]
      S(u, k, evs) == [uuid |-> u, fields |-> k,
                       last_updated |-> evs[Len(evs)].timestamp,
                       state_events |-> evs]
      J(ss) == [kind |-> "json", sensors |-> ss]
  IN {[kind |-> "missing", sensors |-> <<>>],
      [kind |-> "garbage", sensors |-> <<>>],
      J(<<S(1, "ok", <<E(1), E(2)>>)>>),
      J(<<S(1, "ok", <<E(1), E(2), E(3)>>), S(2, "unknown", <<E(2)>>),
          S(3, "ok", <<E(3)>>)>>),
      J(<<S(1, "missing", <<E(1)>>), S(2, "ok", <<E(2)>>)>>),
      J(<<S(1, "ok", <<E(1), X(2)>>), S(2, "ok", <<E(2)>>)>>),
      J(<<S(1, "ok", <<E(3), E(1)>>)>>)}

\* The state after __init__, lines 51-86, of a logger that found the file f.
LgStart(f) ==
  LET loaded == {h.uuid : h \in Range(load_existing_logs(f))} IN
  /\ log_file = f
  /\ sensor_histories = load_existing_logs(f)
  /\ pending_changes = 0
  /\ shutdown_requested = FALSE
  /\ lgPhase = "running"
  /\ lgNow = LgStartTime
  /\ lgObs = [file |-> f,
              loaded |-> loaded,
              full |-> [u \in LgUuids |->
                          IF u \in loaded
                          THEN LET r == CHOOSE r \in Range(f.sensors) : r.uuid = u
                               IN [j \in 1..Len(r.state_events) |->
                                     r.state_events[j].timestamp]
                          ELSE <<>>],
              changes |-> 0, unsaved |-> FALSE, evicted |-> FALSE,
              finalFailed |-> FALSE]

\* time.time() advances.
LgTick ==
  /\ lgPhase \in {"running", "cancelling"}
  /\ lgNow < LgStartTime + MaxLgTicks
  /\ lgNow' = lgNow + 1
  /\ UNCHANGED <<log_file, sensor_histories, pending_changes,
                 shutdown_requested, lgPhase, lgObs, nonLgVars>>

\* log_state_change(u, ...), lines 154-217, called by the payload scan.
LogStateChange(u) ==
  /\ lgPhase \in {"running", "cancelling"}
  /\ lgObs.changes < MaxChanges
  /\ LET after == log_state_change(sensor_histories, u, lgNow)
         known == \E i \in 1..Len(sensor_histories) : sensor_histories[i].uuid = u
     IN /\ sensor_histories' = after
        /\ lgObs' = [lgObs EXCEPT
             !.changes = @ + 1,
             !.unsaved = TRUE,
             !.evicted = @ \/ (~known /\ Len(sensor_histories) >= MaxSensors),
             !.full = [w \in LgUuids |->
                         IF w = u
                         THEN Append(IF known THEN lgObs.full[u] ELSE <<>>, lgNow)
                         ELSE IF \E i \in 1..Len(after) : after[i].uuid = w
                              THEN lgObs.full[w] ELSE <<>>]]
  /\ pending_changes' = pending_changes + 1
  /\ UNCHANGED <<log_file, shutdown_requested, lgPhase, lgNow, nonLgVars>>

\* _periodic_sync, lines 97-109: the sleep is over.  persist_logs returns
\* whether it wrote or not, and pending_changes is reset (line 105).
PeriodicSync ==
  /\ lgPhase = "running"
  /\ ~shutdown_requested
  /\ IF pending_changes > 0
     THEN \E o \in WriteOutcomes :
            /\ log_file' = persist_logs(log_file, sensor_histories, o)
            /\ lgPhase' = IF o = "killed" THEN "stopped" ELSE lgPhase
            /\ pending_changes' = IF o = "killed" THEN pending_changes ELSE 0
            /\ lgObs' = [lgObs EXCEPT !.unsaved = IF o = "ok" THEN FALSE ELSE @]
     ELSE UNCHANGED <<log_file, lgPhase, pending_changes, lgObs>>
  /\ UNCHANGED <<sensor_histories, shutdown_requested, lgNow, nonLgVars>>

\* shutdown, lines 230-240: the flag is set, the sync task is cancelled and
\* awaited (it leaves its sleep with CancelledError and ends, line 106).
ShutdownBegin ==
  /\ lgPhase = "running"
  /\ shutdown_requested' = TRUE
  /\ lgPhase' = "cancelling"
  /\ UNCHANGED <<log_file, sensor_histories, pending_changes, lgNow, lgObs,
                 nonLgVars>>

\* shutdown, lines 242-247: the final sync.
ShutdownFinal ==
  /\ lgPhase = "cancelling"
  /\ IF pending_changes > 0
     THEN \E o \in WriteOutcomes :
            /\ log_file' = persist_logs(log_file, sensor_histories, o)
            /\ lgPhase' = IF o = "killed" THEN "stopped" ELSE "down"
            /\ lgObs' = [lgObs EXCEPT !.unsaved = IF o = "ok" THEN FALSE ELSE @,
                                      !.finalFailed = o # "ok"]
     ELSE /\ lgPhase' = "down"
          /\ UNCHANGED <<log_file, lgObs>>
  /\ UNCHANGED <<sensor_histories, pending_changes, shutdown_requested, lgNow,
                 nonLgVars>>

\* No log file and no logger activity: the state the other specifications
\* keep the logger in.
LgIdle == LgStart([kind |-> "missing", sensors |-> <<>>])

\* ------------------------------------------------------------------------
\* DynamicSensorDiscovery: one UUID's record and its categorisation
\* ------------------------------------------------------------------------
\* The values a sensor reports: the binary 0 and 1, two values inside the
\* analog range (18.0 .. 23.5 lies in it) and one above it.  Of
\* value_history the analysis reads set(value_history) only, kept as
\* unique_values; its length is update_count (lines 136-139, 144-146).
DsValues == {0, 1, 20, 21, 5000}

\* SENSOR_CATEGORIES, lines 20-59, in the order of the dict; a criterion a
\* category does not have is "absent" (-1 for the two counts).
SENSOR_CATEGORIES ==
  <<[category |-> "door_window", binary_only |-> "true", max_updates |-> 3,
     min_activity |-> 1, stable_pattern |-> "true", require_change |-> TRUE,
     value_range |-> FALSE],
    [category |-> "motion", binary_only |-> "true", max_updates |-> 100,
     min_activity |-> 5, stable_pattern |-> "false", require_change |-> FALSE,
     value_range |-> FALSE],
    [category |-> "analog", binary_only |-> "false", max_updates |-> -1,
     min_activity |-> 1, stable_pattern |-> "absent", require_change |-> FALSE,
     value_range |-> TRUE],
    [category |-> "noisy", binary_only |-> "absent", max_updates |-> 1000,
     min_activity |-> 50, stable_pattern |-> "absent", require_change |-> FALSE,
     value_range |-> FALSE]>>

\* _calculate_category_score, lines 211-280.  The result score / max_score
\* is the pair <<score, max_score>>, 0.0 the pair <<0, 1>>.
calculate_category_score(update_count, unique_values, criteria) ==
  LET binary == unique_values \subseteq {0, 1}
      p1 == IF criteria.binary_only = "absent" THEN <<0, 0>>
            ELSE IF criteria.binary_only = "true" THEN <<30, 30>>
            ELSE IF ~binary THEN <<30, 30>> ELSE <<0, 30>>
      p2 == IF criteria.require_change THEN <<25, 25>> ELSE <<0, 0>>
      excess == update_count - criteria.max_updates
      p3 == IF criteria.max_updates = -1 THEN <<0, 0>>
            ELSE IF update_count <= criteria.max_updates THEN <<20, 20>>
            ELSE <<IF 20 - excess * 10 > 0 THEN 20 - excess * 10 ELSE 0, 20>>
      p4 == IF criteria.min_activity = -1 THEN <<0, 0>>
            ELSE IF update_count >= criteria.min_activity THEN <<15, 15>>
            ELSE <<0, 15>>
      p5 == IF ~criteria.value_range THEN <<0, 0>>
            ELSE IF \A v \in unique_values : 0 <= v /\ v <= 1000 THEN <<10, 10>>
            ELSE <<0, 10>>
      p6 == IF criteria.stable_pattern = "absent" THEN <<0, 0>>
            ELSE IF criteria.stable_pattern = "false" THEN <<8, 10>>
            ELSE IF Cardinality(unique_values) = 2 /\ unique_values = {0, 1}
                    /\ update_count <= 3 THEN <<10, 10>>
            ELSE IF Cardinality(unique_values) = 2 /\ update_count <= 3
                 THEN <<5, 10>>
            ELSE <<0, 10>>
      score == p1[1] + p2[1] + p3[1] + p4[1] + p5[1] + p6[1]
      max_score == p1[2] + p2[2] + p3[2] + p4[2] + p5[2] + p6[2]
  IN IF criteria.binary_only = "true" /\ ~binary THEN <<0, 1>>
     ELSE IF criteria.require_change /\ Cardinality(unique_values) < 2
          THEN <<0, 1>>
     ELSE IF max_score > 0 THEN <<score, max_score>> ELSE <<0, 1>>

\* a / b > c / d for the pairs <<a, b>> and <<c, d>>.
ScoreGt(x, y) == x[1] * y[2] > y[1] * x[2]

\* A choice that lets a later category take a tie.
best_category_LastWins(update_count, unique_values, i, best) ==
  LET all == {j \in i..Len(SENSOR_CATEGORIES) :
                \A k \in i..Len(SENSOR_CATEGORIES) :
                  ~ScoreGt(calculate_category_score(update_count, unique_values,
                                                    SENSOR_CATEGORIES[k]),
                           calculate_category_score(update_count, unique_values,
                                                    SENSOR_CATEGORIES[j]))}
      j == CHOOSE j \in all : \A k \in all : k <= j
  IN IF ScoreGt(calculate_category_score(update_count, unique_values,
                                         SENSOR_CATEGORIES[j]), best.score)
     THEN SENSOR_CATEGORIES[j].category ELSE best.category

\* _analyze_discovered_sensors, lines 162-170: the loop over the categories
\* from the i-th on; a category replaces the best one only with a strictly
\* greater score.
RECURSIVE best_category(_, _, _, _)
best_category(update_count, unique_values, i, best) ==
  IF i > Len(SENSOR_CATEGORIES) THEN best.category
  ELSE LET score == calculate_category_score(update_count, unique_values,
                                             SENSOR_CATEGORIES[i])
       IN best_category(update_count, unique_values, i + 1,
                        IF ScoreGt(score, best.score)
                        THEN [category |-> SENSOR_CATEGORIES[i].category,
                              score |-> score]
                        ELSE best)

\* The state after __init__, lines 82-92: no discovery runs, no sensor.
NoSensor == [update_count |-> 0, unique_values |-> {}, current_value |-> -1,
             category |-> "unknown", analysed |-> FALSE]
DsIdle == discovery = [active |-> FALSE, sensor |-> NoSensor]

\* start_discovery, lines 105-110.
StartDiscovery ==
  /\ ~discovery.active
  /\ discovery' = [active |-> TRUE, sensor |-> NoSensor]
  /\ UNCHANGED nonDsVars

\* on_state_update, lines 119-151, for the one UUID.
OnStateUpdate(value) ==
  /\ discovery.sensor.update_count < MaxUpdates
  /\ discovery' =
       IF ~discovery.active THEN discovery
       ELSE IF discovery.sensor.update_count > 0
       THEN IF discovery.sensor.current_value # value
            THEN [discovery EXCEPT !.sensor.unique_values = @ \cup {value},
                                   !.sensor.current_value = value,
                                   !.sensor.update_count = @ + 1]
            ELSE discovery
       ELSE [discovery EXCEPT !.sensor.unique_values = {value},
                              !.sensor.current_value = value,
                              !.sensor.update_count = 1]
  /\ UNCHANGED nonDsVars

\* stop_discovery, lines 112-117, and _analyze_discovered_sensors, lines
\* 153-185, for the sensor if there is one.
StopDiscovery ==
  /\ discovery.active
  /\ discovery' =
       IF discovery.sensor.update_count > 0
       THEN [discovery EXCEPT
               !.active = FALSE,
               !.sensor.analysed = TRUE,
               !.sensor.category =
                  best_category(discovery.sensor.update_count,
                                discovery.sensor.unique_values, 1,
                                [category |-> "unknown", score |-> <<0, 1>>])]
       ELSE [discovery EXCEPT !.active = FALSE]
  /\ UNCHANGED nonDsVars

\* ------------------------------------------------------------------------
\* The MCP server (server.py): action and room names, the control tools
\* ------------------------------------------------------------------------
\* A Python str is a string; SubSeq(s, i, i) is its i-th character.  None
\* is written "None" where an argument may be None (device_type, position,
\* brightness).

\* str.lower(), for the letters that occur in the inputs.
RECURSIVE lower(_)
lower(s) ==
  LET upper == "ABCDEFGHIJKLMNOPQRSTUVWXYZÄÖÜ"
      small == "abcdefghijklmnopqrstuvwxyzäöü"
      c == SubSeq(s, 1, 1)
      at == {i \in 1..Len(upper) : SubSeq(upper, i, i) = c}
  IN IF s = "" THEN ""
     ELSE (IF at = {} THEN c ELSE LET i == CHOOSE i \in at : TRUE
                                  IN SubSeq(small, i, i))
          \o lower(SubSeq(s, 2, Len(s)))

\* str.strip(): the blanks at both ends leave.
strip(s) ==
  LET ink == {i \in 1..Len(s) : SubSeq(s, i, i) # " "}
  IN IF ink = {} THEN ""
     ELSE SubSeq(s, CHOOSE i \in ink : \A j \in ink : i <= j,
                    CHOOSE i \in ink : \A j \in ink : j <= i)

\* str.replace(old, new) for a non-empty old: the occurrences from the left,
\* none overlapping another.
RECURSIVE replace(_, _, _)
replace(s, old, new) ==
  IF Len(s) < Len(old) THEN s
  ELSE IF SubSeq(s, 1, Len(old)) = old
       THEN new \o replace(SubSeq(s, Len(old) + 1, Len(s)), old, new)
       ELSE SubSeq(s, 1, 1) \o replace(SubSeq(s, 2, Len(s)), old, new)

\* A table in which an alias leads to another alias.
normalize_action_Chained(action) ==
  LET action_lower == strip(lower(action))
  IN CASE action_lower \in {"hoch", "rauf"} -> "auf"
       [] action_lower \in {"auf", "öffnen", "oeffnen"} -> "up"
       [] action_lower \in {"runter", "zu", "schließen", "schliessen"} -> "down"
       [] action_lower \in {"stop", "stopp", "anhalten"} -> "stop"
       [] action_lower \in {"an", "ein", "einschalten"} -> "on"
       [] action_lower \in {"aus", "ausschalten"} -> "off"
       [] action_lower \in {"umschalten", "wechseln"} -> "toggle"
       [] action_lower = "dimmen" -> "dim"
       [] OTHER -> action_lower

\* normalize_action, lines 65-68, over ACTION_ALIASES, lines 31-54.
normalize_action(action) ==
  LET action_lower == strip(lower(action))
  IN CASE action_lower \in {"hoch", "rauf", "öffnen", "auf", "oeffnen"} -> "up"
       [] action_lower \in {"runter", "zu", "schließen", "schliessen"} -> "down"
       [] action_lower \in {"stop", "stopp", "anhalten"} -> "stop"
       [] action_lower \in {"an", "ein", "einschalten"} -> "on"
       [] action_lower \in {"aus", "ausschalten"} -> "off"
       [] action_lower \in {"umschalten", "wechseln"} -> "toggle"
       [] action_lower = "dimmen" -> "dim"
       [] OTHER -> action_lower

\* find_matching_room, lines 71-119, over FLOOR_PATTERNS, lines 57-62;
\* available_rooms is the dict in insertion order, the result the list of
\* its matching items.  floor is the first floor_key one of whose variations
\* is in the query (0: floor_prefix stays None); the query then loses every
\* variation of that floor in turn (lines 87-88).
find_matching_room(room_query, available_rooms) ==
  LET In(sub, s) == \E i \in 1..(Len(s) - Len(sub) + 1) :
                      SubSeq(s, i, i + Len(sub) - 1) = sub
      replacements(s) ==
        replace(replace(replace(replace(s, "ä", "ae"), "ö", "oe"),
                        "ü", "ue"), "ß", "ss")
      FLOOR_PATTERNS ==
        <<[floor_key |-> "og", prefix |-> "OG",
           variations |-> <<"og", "obergeschoss", "obergeschoß", "upstairs",
                            "upper floor", "1st floor">>],
          [floor_key |-> "eg", prefix |-> "EG",
           variations |-> <<"eg", "erdgeschoss", "erdgeschoß", "ground floor",
                            "main floor">>],
          [floor_key |-> "ug", prefix |-> "UG",
           variations |-> <<"ug", "untergeschoss", "basement", "lower floor",
                            "keller">>],
          [floor_key |-> "dg", prefix |-> "DG",
           variations |-> <<"dg", "dachgeschoss", "attic", "top floor",
                            "dachboden">>]>>
      first_floor(floors) ==
        IF floors = {} THEN 0 ELSE CHOOSE k \in floors : \A j \in floors : k <= j
      without(q, vs, j) ==
        IF j > Len(vs) THEN q ELSE strip(replace(q, vs[j], ""))
      matching(query_lower, floor_prefix) ==
        LET OnFloor(r) ==
              /\ Len(r.name) > Len(floor_prefix)
              /\ SubSeq(r.name, 1, Len(floor_prefix) + 1) = floor_prefix \o " "
              /\ (query_lower = "" \/ In(query_lower, lower(r.name)))
            Standard(r) == In(query_lower, replacements(lower(r.name)))
            Or(floor_rooms, rooms) ==
              IF floor_rooms # <<>> THEN floor_rooms ELSE rooms
        IN Or(IF floor_prefix = "None" THEN <<>>
              ELSE SelectSeq(available_rooms, OnFloor),
              SelectSeq(available_rooms, Standard))
      on_floor(query, floor) ==
        IF floor = 0 THEN matching(query, "None")
        ELSE LET vs == FLOOR_PATTERNS[floor].variations
             IN matching(without(without(without(without(without(without(
                           query, vs, 1), vs, 2), vs, 3), vs, 4), vs, 5), vs, 6),
                         FLOOR_PATTERNS[floor].prefix)
      resolve(query) ==
        on_floor(query,
                 first_floor({k \in 1..Len(FLOOR_PATTERNS) :
                                \E j \in 1..Len(FLOOR_PATTERNS[k].variations) :
                                  In(FLOOR_PATTERNS[k].variations[j], query)}))
  IN resolve(replacements(strip(lower(room_query))))

\* get_room_devices, lines 284-310, of a connected server: the devices of
\* each matching room in turn (in the order of ctx.devices within a room).
\* Of the dict the tool returns for a device the model keeps uuid, name and
\* type, and room_uuid in place of the room name.
get_room_devices(ctx, room, device_type) ==
  LET in_turn(matching_rooms) ==
        LET at(d) == CHOOSE k \in 1..Len(matching_rooms) :
                       matching_rooms[k].uuid = d.room_uuid
            Listed(d) ==
              /\ \E k \in 1..Len(matching_rooms) :
                   matching_rooms[k].uuid = d.room_uuid
              /\ (device_type = "None" \/ d.type = device_type)
            ordered(room_devices) ==
              [n \in 1..Len(room_devices) |->
                 room_devices[
                   CHOOSE i \in 1..Len(room_devices) :
                     Cardinality(
                       {j \in 1..Len(room_devices) :
                          \/ at(room_devices[j]) < at(room_devices[i])
                          \/ /\ at(room_devices[j]) = at(room_devices[i])
                             /\ j < i}) = n - 1]]
        IN ordered(SelectSeq(ctx.devices, Listed))
  IN in_turn(find_matching_room(room, ctx.rooms))

\* A mapping that sends Stop for an action it does not know.
command_for_StopByDefault(tool, normalized_action, value) ==
  IF tool = "control_rolladen"
  THEN CASE normalized_action = "position" /\ value # "None"
              -> "moveToPosition/" \o value
         [] normalized_action = "up" -> "FullUp"
         [] normalized_action = "down" -> "FullDown"
         [] OTHER -> "Stop"
  ELSE CASE normalized_action = "on" -> "On"
         [] normalized_action = "off" -> "Off"
         [] normalized_action = "toggle" -> "Pulse"
         [] normalized_action = "dim" /\ value # "None" -> value
         [] OTHER -> "Stop"

\* A mapping that takes up for down.
command_for_Swapped(tool, normalized_action, value) ==
  IF tool = "control_rolladen"
  THEN CASE normalized_action = "position" /\ value # "None"
              -> "moveToPosition/" \o value
         [] normalized_action = "up" -> "FullDown"
         [] normalized_action = "down" -> "FullUp"
         [] normalized_action = "stop" -> "Stop"
         [] OTHER -> "None"
  ELSE CASE normalized_action = "on" -> "Off"
         [] normalized_action = "off" -> "On"
         [] normalized_action = "toggle" -> "Pulse"
         [] normalized_action = "dim" /\ value # "None" -> value
         [] OTHER -> "None"

\* The action to command mapping of control_rolladen, lines 371-387, and of
\* control_light, lines 501-517; "None" for the else branch.
command_for(tool, normalized_action, value) ==
  IF tool = "control_rolladen"
  THEN CASE normalized_action = "position" /\ value # "None"
              -> "moveToPosition/" \o value
         [] normalized_action = "up" -> "FullUp"
         [] normalized_action = "down" -> "FullDown"
         [] normalized_action = "stop" -> "Stop"
         [] OTHER -> "None"
  ELSE CASE normalized_action = "on" -> "On"
         [] normalized_action = "off" -> "Off"
         [] normalized_action = "toggle" -> "Pulse"
         [] normalized_action = "dim" /\ value # "None" -> value
         [] OTHER -> "None"

\* The server process as started by run_sse_server, lines 332-346: no
\* Loxone context yet, the API key configured or generated (the key "key"),
\* no operation served.  call, result, sent (the commands given to
\* send_command) and request, response describe the operation being served.
McpStart(require_auth) ==
  server = [context |-> [connected |-> FALSE, rooms |-> <<>>, devices |-> <<>>],
            SSE_REQUIRE_AUTH |-> require_auth,
            SSE_API_KEY |-> "key",
            call |-> [tool |-> "None", room |-> "", device |-> "",
                      action |-> "", value |-> "None", devices |-> <<>>],
            result |-> <<>>,
            sent |-> <<>>,
            request |-> [path |-> "None", authorization |-> "None",
                         x_api_key |-> "None", body |-> "None"],
            response |-> [status |-> 0, www_authenticate |-> "None",
                          dispatched |-> FALSE]]

\* lifespan, lines 150-241: entered, the context holds the rooms and the
\* devices of the structure file (lines 183-224); left, _context is None
\* (line 236).  The server is entered and left between two operations.
Lifespan ==
  LET R(u, n) == [uuid |-> u, name |-> n]
      D(u, n, t, r) == [uuid |-> u, name |-> n, type |-> t, room_uuid |-> r]
  IN /\ server.call.tool = "None" /\ server.request.path = "None"
     /\ server' = [server EXCEPT !.context =
          IF server.context.connected
          THEN [connected |-> FALSE, rooms |-> <<>>, devices |-> <<>>]
          ELSE [connected |-> TRUE,
                rooms |-> <<R("r1", "Bad"), R("r2", "Badezimmer"),
                            R("r3", "OG Büro"), R("r4", "OG Bad")>>,
                devices |-> <<D("J1", "Rolladen", "Jalousie", "r1"),
                              D("L1", "Licht", "Switch", "r1"),
                              D("J2", "Rolladen Süd", "Jalousie", "r2"),
                              D("J3", "Rolladen", "Jalousie", "r3"),
                              D("L3", "Licht", "Dimmer", "r3"),
                              D("L4", "Spots", "LightController", "r3"),
                              D("J4", "Rolladen", "Jalousie", "r4")>>]]
     /\ UNCHANGED nonSrvVars

\* list_rooms, lines 251-261.
ListRooms ==
  /\ server.call.tool = "None" /\ server.request.path = "None"
  /\ server' = [server EXCEPT
       !.call = [tool |-> "list_rooms", room |-> "", device |-> "",
                 action |-> "", value |-> "None", devices |-> <<>>],
       !.result = IF ~server.context.connected
                  THEN <<[error |-> "Not connected to Loxone"]>>
                  ELSE server.context.rooms,
       !.sent = <<>>]
  /\ UNCHANGED nonSrvVars

\* get_room_devices, lines 264-310, called as a tool.
GetRoomDevices(room, device_type) ==
  /\ server.call.tool = "None" /\ server.request.path = "None"
  /\ server' = [server EXCEPT
       !.call = [tool |-> "get_room_devices", room |-> room,
                 device |-> device_type, action |-> "", value |-> "None",
                 devices |-> <<>>],
       !.result = IF ~server.context.connected THEN <<>>
                  ELSE get_room_devices(server.context, room, device_type),
       !.sent = <<>>]
  /\ UNCHANGED nonSrvVars

\* control_rolladen, lines 316-409 (tool "control_rolladen", value the
\* position), and control_light, lines 431-537 (tool "control_light", value
\* the brightness).  send_command raises for the devices in failing (lines
\* 390 and 403, 520 and 530) after their request was sent.  call.devices
\* are the devices the loop of lines 363 and 493 goes over.
Control(tool, room, device, action, value, failing) ==
  LET ctx == server.context
      In(sub, s) == \E i \in 1..(Len(s) - Len(sub) + 1) :
                      SubSeq(s, i, i + Len(sub) - 1) = sub
      Named(d) == In(lower(device), lower(d.name))
      Success(r) == "success" \in DOMAIN r
      served(devices, answer, sent) ==
        [server EXCEPT
           !.call = [tool |-> tool, room |-> room, device |-> device,
                     action |-> action, value |-> value, devices |-> devices],
           !.result = answer,
           !.sent = sent]
      counted(devices, results, sent) ==
        served(devices,
               [room |-> room, controlled |-> Len(SelectSeq(results, Success)),
                results |-> results],
               sent)
      execute(devices, normalized_action, command) ==
        LET entry(dev) ==
              IF command = "None"
              THEN [device |-> dev.name,
                    error |-> "Invalid action: " \o action \o " (normalized: "
                              \o normalized_action \o ")"]
              ELSE IF dev.uuid \in failing
              THEN [device |-> dev.name, error |-> "Command failed"]
              ELSE [device |-> dev.name, action |-> action, success |-> TRUE,
                    value |-> IF action = (IF tool = "control_rolladen"
                                           THEN "position" ELSE "dim")
                              THEN value ELSE "None"]
        IN counted(devices,
                   [i \in 1..Len(devices) |-> entry(devices[i])],
                   IF command = "None" THEN <<>>
                   ELSE [i \in 1..Len(devices) |->
                           "jdev/sps/io/" \o devices[i].uuid \o "/" \o command])
      normalized(devices, normalized_action) ==
        execute(devices, normalized_action,
                command_for(tool, normalized_action, value))
      named(devices) ==
        IF devices = <<>>
        THEN served(<<>>,
               [error |-> "No " \o (IF tool = "control_rolladen"
                                    THEN "rolladen" ELSE "light")
                          \o " named '" \o device \o "' found in room '"
                          \o room \o "'"],
               <<>>)
        ELSE normalized(devices, normalize_action(action))
      filtered(devices) ==
        named(IF device # "" THEN SelectSeq(devices, Named) ELSE devices)
      unique(all_devices, seen) ==
        filtered([n \in 1..Cardinality(seen) |->
                    all_devices[CHOOSE i \in seen :
                                  Cardinality({j \in seen : j < i}) = n - 1]])
      found(all_devices) ==
        IF all_devices = <<>>
        THEN served(<<>>,
               [error |-> "No " \o (IF tool = "control_rolladen"
                                    THEN "rolladen" ELSE "lights")
                          \o " found in room '" \o room \o "'"],
               <<>>)
        ELSE IF tool = "control_rolladen" THEN filtered(all_devices)
        ELSE unique(all_devices,
                    {i \in 1..Len(all_devices) :
                       \A j \in 1..(i - 1) :
                         all_devices[j].uuid # all_devices[i].uuid})
  IN /\ server.call.tool = "None" /\ server.request.path = "None"
     /\ server' =
          IF ~ctx.connected
          THEN served(<<>>, [error |-> "Not connected to Loxone"], <<>>)
          ELSE IF tool = "control_rolladen"
          THEN found(get_room_devices(ctx, room, "Jalousie"))
          ELSE found(get_room_devices(ctx, room, "Light")
                     \o get_room_devices(ctx, room, "LightController")
                     \o get_room_devices(ctx, room, "Dimmer")
                     \o get_room_devices(ctx, room, "Switch"))
     /\ UNCHANGED nonSrvVars

\* ------------------------------------------------------------------------
\* The HTTP front of the MCP server (sse_server.py)
\* ------------------------------------------------------------------------
\* verify_api_key, lines 86-117.  security(request), an HTTPBearer with
\* auto_error = False, gives the credentials of an Authorization header
\* "<scheme> <credentials>" whose scheme is bearer in any case, else None.
\* Two keys have the same SHA-256 digest when they are the same key.
verify_api_key(request, require_auth, api_key) ==
  LET header == request.authorization
      blanks == {i \in 1..Len(header) : SubSeq(header, i, i) = " "}
      cut == IF blanks = {} THEN Len(header) + 1
             ELSE CHOOSE i \in blanks : \A j \in blanks : i <= j
      scheme == SubSeq(header, 1, cut - 1)
      credentials == strip(SubSeq(header, cut + 1, Len(header)))
      auth == header # "None" /\ scheme # "" /\ credentials # ""
              /\ lower(scheme) = "bearer"
      provided_key == IF auth THEN credentials ELSE request.x_api_key
  IN IF ~require_auth THEN TRUE
     ELSE IF provided_key \in {"None", ""} THEN FALSE
     ELSE IF api_key \in {"None", ""} THEN FALSE
     ELSE provided_key = api_key

\* messages_endpoint, lines 242-279, for POST /messages: the body is read
\* before the key is verified.  A body that is not JSON gets the parse
\* error (line 267), a JSON body that is not an object raises
\* AttributeError at request_data.get (lines 254 and 148) and gets the
\* internal error (line 272); both are JSONResponses with the default
\* status 200.
MessagesEndpoint(request) ==
  LET verified == verify_api_key(request, server.SSE_REQUIRE_AUTH,
                                 server.SSE_API_KEY)
  IN /\ server.call.tool = "None" /\ server.request.path = "None"
     /\ request.path = "/messages"
     /\ server' = [server EXCEPT
          !.request = request,
          !.response =
             IF request.body = "garbage" \/ request.body = "array"
             THEN [status |-> 200, www_authenticate |-> "None",
                   dispatched |-> FALSE]
             ELSE IF ~verified
             THEN [status |-> 401, www_authenticate |-> "Bearer",
                   dispatched |-> FALSE]
             ELSE [status |-> 200, www_authenticate |-> "None",
                   dispatched |-> TRUE]]
     /\ UNCHANGED nonSrvVars

\* sse_endpoint, lines 282-316, for GET /sse.
SseEndpoint(request) ==
  LET verified == verify_api_key(request, server.SSE_REQUIRE_AUTH,
                                 server.SSE_API_KEY)
  IN /\ server.call.tool = "None" /\ server.request.path = "None"
     /\ request.path = "/sse"
     /\ server' = [server EXCEPT
          !.request = request,
          !.response =
             IF ~verified
             THEN [status |-> 401, www_authenticate |-> "Bearer",
                   dispatched |-> FALSE]
             ELSE [status |-> 200, www_authenticate |-> "None",
                   dispatched |-> TRUE]]
     /\ UNCHANGED nonSrvVars

\* The streamable-HTTP route /mcp of the app run_sse_server serves, lines
\* 353-368: mcp.streamable_http_app() with the CORS middleware and the
\* three routes of lines 319-329 and nothing else; auth_middleware (lines
\* 120-135) is not added to the app, so the request reaches the MCP session
\* manager as it came.
StreamableHttp(request) ==
  /\ server.call.tool = "None" /\ server.request.path = "None"
  /\ request.path = "/mcp"
  /\ server' = [server EXCEPT
       !.request = request,
       !.response = [status |-> 200, www_authenticate |-> "None",
                     dispatched |-> TRUE]]
  /\ UNCHANGED nonSrvVars

\* The result of the tool goes to the caller, the response of the route to
\* the client: the server keeps nothing of a served operation.
Respond ==
  /\ server.call.tool # "None" \/ server.request.path # "None"
  /\ server' = [server EXCEPT
       !.call = [tool |-> "None", room |-> "", device |-> "", action |-> "",
                 value |-> "None", devices |-> <<>>],
       !.result = <<>>,
       !.sent = <<>>,
       !.request = [path |-> "None", authorization |-> "None",
                    x_api_key |-> "None", body |-> "None"],
       !.response = [status |-> 0, www_authenticate |-> "None",
                     dispatched |-> FALSE]]
  /\ UNCHANGED nonSrvVars

\* The token client under every explored max_reconnect_attempts; the
\* WebSocket client stays as constructed.
Init ==
  /\ LgIdle
  /\ DsIdle
  /\ McpStart(TRUE)
  /\ HttpStart
  /\ max_reconnect_attempts \in 0..MaxAttemptsCfg
  /\ WsStart
  /\ ws_max_reconnect_attempts = -1

SpecHttp == Init /\ [][HttpNext]_vars


\* ------------------------------------------------------------------------
\* The life of one LoxoneWebSocketClient
\* ------------------------------------------------------------------------
\* max_reconnect_attempts is the default -1 (line 27) or a limit of 1; the
\* token client stays as constructed (its default limit is 5, line 38).
WsInit ==
  /\ LgIdle
  /\ DsIdle
  /\ McpStart(TRUE)
  /\ HttpStart
  /\ max_reconnect_attempts = 5
  /\ WsStart
  /\ ws_max_reconnect_attempts \in {-1, 1}

WsNext ==
  \/ OwnerConnect
  \/ OwnerClose
  \/ \E a \in Actors :
       \/ ConnectOpened(a)
       \/ AuthSent(a)
       \/ AuthSlept(a)
       \/ StatusEnabled(a)
       \/ CloseGathered(a)
       \/ CloseSocketClosed(a)
  \/ \E h \in Handlers :
       \/ HandlerStart(h)
       \/ HandlerLoop(h)
       \/ RecvBinary(h, LifecycleFrames)
       \/ RecvText(h)
       \/ RecvTimeout(h)
       \/ KeepaliveSent(h)
       \/ RecvClosed(h)
       \/ RecvError(h)
       \/ ReconnectClosed(h)
       \/ ReconnectSlept(h)
       \/ Cancelled(h)

SpecWs == WsInit /\ [][WsNext]_vars

\* ------------------------------------------------------------------------
\* Real-time monitoring beside send_command
\* ------------------------------------------------------------------------
\* The token client is connected and holds token 1, which expires within
\* the refresh margin; its WebSocket client is fresh.
MonInit ==
  /\ LgIdle
  /\ DsIdle
  /\ McpStart(TRUE)
  /\ connected = TRUE
  /\ token = 1
  /\ key = TRUE
  /\ token_valid_until = StartUnix - LOXONE_EPOCH + 200
  /\ structure = TRUE
  /\ reconnection_event = TRUE
  /\ task = [t \in Tasks |-> IdleTask]
  /\ unixNow = StartUnix
  /\ issued = 1
  /\ obs = [t \in Tasks |-> NoObs]
  /\ probed = TRUE
  /\ closing = [pc |-> "open", held |-> None, kills |-> <<>>, outcome |-> "None",
                log |-> "None", returned |-> [token |-> None, connected |-> FALSE]]
  /\ max_reconnect_attempts = 1
  /\ WsStart
  /\ ws_max_reconnect_attempts = -1

\* start_realtime_monitoring and the life of the WebSocket connection,
\* while a caller of the token client sends one command.  The coroutines
\* of both clients run on one event loop: none steps while another stands
\* between two await points.
MonNext ==
  \/ (\A u \in Tasks : task[u].pc \notin InternalPcs) /\ OwnerConnect
  \/ \E a \in Actors :
       \/ (\A u \in Tasks : task[u].pc \notin InternalPcs) /\ ConnectOpened(a)
       \/ (\A u \in Tasks : task[u].pc \notin InternalPcs) /\ AuthSent(a)
       \/ (\A u \in Tasks : task[u].pc \notin InternalPcs) /\ AuthSlept(a)
       \/ (\A u \in Tasks : task[u].pc \notin InternalPcs) /\ StatusEnabled(a)
       \/ (\A u \in Tasks : task[u].pc \notin InternalPcs) /\ CloseSocketClosed(a)
  \/ \E h \in Handlers :
       \/ (\A u \in Tasks : task[u].pc \notin InternalPcs) /\ HandlerStart(h)
       \/ (\A u \in Tasks : task[u].pc \notin InternalPcs) /\ HandlerLoop(h)
       \/ (\A u \in Tasks : task[u].pc \notin InternalPcs) /\ RecvClosed(h)
       \/ (\A u \in Tasks : task[u].pc \notin InternalPcs) /\ ReconnectClosed(h)
       \/ (\A u \in Tasks : task[u].pc \notin InternalPcs) /\ ReconnectSlept(h)
       \/ (\A u \in Tasks : task[u].pc \notin InternalPcs) /\ Cancelled(h)
  \/ \E t \in {1} :
       \/ (\A b \in Actors : actor[b].pc # "loop") /\ Call(t)
       \/ (\A b \in Actors : actor[b].pc # "loop") /\ SendCommandEntry(t)
       \/ (\A b \in Actors : actor[b].pc # "loop") /\ RefreshCheck(t)
       \/ (\A b \in Actors : actor[b].pc # "loop") /\ RefreshReply(t)
       \/ (\A b \in Actors : actor[b].pc # "loop") /\ Getkey2Reply(t)
       \/ (\A b \in Actors : actor[b].pc # "loop") /\ GetjwtReply(t)
       \/ (\A b \in Actors : actor[b].pc # "loop") /\ PostRefresh(t)
       \/ (\A b \in Actors : actor[b].pc # "loop") /\ DispatchReply(t)

SpecMonitor == MonInit /\ [][MonNext]_vars

\* ------------------------------------------------------------------------
\* Two callers of send_command on one token client
\* ------------------------------------------------------------------------
\* The client is connected and its token is within the refresh margin, as
\* in MonInit; both callers send one command.
ConcNext ==
  \/ \E t \in Tasks :
       \/ Call(t)
       \/ SendCommandEntry(t)
       \/ Ensure(t)
       \/ EnsureWait(t)
       \/ ProbeReply(t)
       \/ Getkey2Reply(t)
       \/ GetjwtReply(t)
       \/ StructEntry(t)
       \/ RefreshCheck(t)
       \/ RefreshReply(t)
       \/ PostRefresh(t)
       \/ AfterEnsure(t)
       \/ DispatchReply(t)

SpecConcurrent == MonInit /\ [][ConcNext]_vars

\* ------------------------------------------------------------------------
\* The payload scan on a connected client
\* ------------------------------------------------------------------------
\* The state after connect() succeeded on the fresh client and the handler
\* task reached its first recv().
ScanInit ==
  /\ LgIdle
  /\ DsIdle
  /\ McpStart(TRUE)
  /\ HttpStart
  /\ max_reconnect_attempts = 5
  /\ ws_max_reconnect_attempts = -1
  /\ ws_websocket = "open"
  /\ ws_connected = TRUE
  /\ ws_authenticated = TRUE
  /\ running = TRUE
  /\ ws_tasks = {1}
  /\ reconnect_count = 0
  /\ reconnecting = FALSE
  /\ states = EmptyMirror
  /\ state_callbacks = <<>>
  /\ actor = [a \in Actors |->
                IF a = Owner THEN [NoActor EXCEPT !.pc = "idle", !.via = "start"]
                ELSE IF a = 1 THEN [NoActor EXCEPT !.pc = "recv"]
                ELSE NoActor]
  /\ framesDone = 0
  /\ applied = <<>>
  /\ delivered = [c \in Callbacks |-> <<>>]
  /\ joined = [c \in Callbacks |-> 0]
  /\ wsObs = [NoWsObs EXCEPT !.ready = TRUE]
  /\ message = NoMessage

ScanNext ==
  \/ \E c \in Callbacks : add_state_callback(c) \/ remove_state_callback(c)
  \/ HandlerLoop(1)
  \/ RecvBinary(1, ScanFrames)

SpecScan == ScanInit /\ [][ScanNext]_vars

\* ------------------------------------------------------------------------
\* The life of one SensorStateLogger
\* ------------------------------------------------------------------------
\* The logger is constructed over each of the files; the two clients stay
\* as constructed.
LgInit ==
  /\ HttpStart
  /\ max_reconnect_attempts = 5
  /\ WsStart
  /\ ws_max_reconnect_attempts = -1
  /\ \E f \in InitialFiles : LgStart(f)
  /\ DsIdle
  /\ McpStart(TRUE)

LgNext ==
  \/ LgTick
  \/ \E u \in LgUuids : LogStateChange(u)
  \/ PeriodicSync
  \/ ShutdownBegin
  \/ ShutdownFinal

SpecLogger == LgInit /\ [][LgNext]_vars

\* ------------------------------------------------------------------------
\* One discovery window of DynamicSensorDiscovery
\* ------------------------------------------------------------------------
\* The discoverer as constructed; the clients and the logger stay as
\* constructed.
DsInit ==
  /\ HttpStart
  /\ max_reconnect_attempts = 5
  /\ WsStart
  /\ ws_max_reconnect_attempts = -1
  /\ LgIdle
  /\ DsIdle
  /\ McpStart(TRUE)

DsNext ==
  \/ StartDiscovery
  \/ \E v \in DsValues : OnStateUpdate(v)
  \/ StopDiscovery

SpecDiscovery == DsInit /\ [][DsNext]_vars

\* ------------------------------------------------------------------------
\* The MCP server: tool calls and HTTP requests
\* ------------------------------------------------------------------------
\* The server with authentication required (the default, line 70) or
\* switched off; the clients, the logger and the discoverer stay as
\* constructed.
SrvInit ==
  /\ HttpStart
  /\ max_reconnect_attempts = 5
  /\ WsStart
  /\ ws_max_reconnect_attempts = -1
  /\ LgIdle
  /\ DsIdle
  /\ \E require_auth \in BOOLEAN : McpStart(require_auth)

SrvNext ==
  LET Rooms == {"Bad", "bad", "OG", "DG", "og büro", "Obergeschoss"}
      Spoken == {"up", "down", "stop", "position", "on", "off", "toggle", "dim",
                "hoch", "rauf", "öffnen", "auf", "oeffnen", "runter", "zu",
                "schließen", "schliessen", "stopp", "anhalten", "an", "ein",
                "einschalten", "aus", "ausschalten", "umschalten", "wechseln",
                "dimmen", "dance", "HOCH", " Auf ", "Stopp ", "AN", " dance"}
      Requests == [path : {"/messages", "/sse", "/mcp"},
                   authorization : {"None", "Bearer key", "bearer key",
                                    "Bearer wrong", "Basic key", "Bearer"},
                   x_api_key : {"None", "key", "wrong"},
                   body : {"object", "array", "garbage"}]
  IN \/ Lifespan
     \/ ListRooms
     \/ \E room \in Rooms, device_type \in {"None", "Jalousie"} :
          GetRoomDevices(room, device_type)
     \/ \E room \in Rooms, action \in {"up", "Runter", "position", "dance"},
           position \in {"None", "50"}, failing \in {{}, {"J2"}, {"J3", "J4"}} :
          Control("control_rolladen", room, "", action, position, failing)
     \/ \E room \in Rooms, action \in {"aus", "Dim", "up"},
           brightness \in {"None", "30"}, failing \in {{}, {"L3"}} :
          Control("control_light", room, "", action, brightness, failing)
     \/ \E tool \in {"control_rolladen", "control_light"}, action \in Spoken,
           device \in {"", "süd", "licht"} :
          Control(tool, "Bad", device, action, "None", {})
     \/ \E request \in Requests : MessagesEndpoint(request)
     \/ \E request \in Requests : SseEndpoint(request)
     \/ \E request \in Requests : StreamableHttp(request)
     \/ Respond

SpecServer == SrvInit /\ [][SrvNext]_vars

\* ========================================================================
\* Properties
\* ========================================================================

\* C1: a command answered with LL.code "401" leads to exactly one getjwt
\* acquisition and exactly one re-issue of the command, whose outcome the
\* call returns.  Stated for the calls that returned a value without a
\* network failure on the way, on a client allowed at least one connection
\* attempt.
C1_OneReacquireOnUnauthorized ==
  \A t \in Tasks :
    (max_reconnect_attempts >= 1
       /\ task[t].pc = "done" /\ task[t].result = "value"
       /\ obs[t].n401 >= 1 /\ obs[t].reconnects = 0)
      => (obs[t].getjwt = 1 /\ obs[t].dispatch = 2
            /\ obs[t].dispatchToken = obs[t].reauthToken)

\* C2: one call of send_command re-acquires the token at most once on
\* account of 401 replies and, without network failures, dispatches the
\* command at most twice (on a client allowed at least one connection
\* attempt).
C2_AtMostOneReacquire ==
  max_reconnect_attempts >= 1 =>
    \A t \in Tasks :
      /\ obs[t].reacquire <= 1
      /\ obs[t].reconnects = 0 => obs[t].dispatch <= 2

\* C3: send_command returns a value as a success only for an LL envelope
\* with code "200", in the token client (allowed at least one connection
\* attempt) and in the basic-auth client.
C3_ValueOnlyOnCode200 ==
  /\ \A t \in Tasks :
       (max_reconnect_attempts >= 1
          /\ task[t].pc = "done" /\ task[t].result = "value")
         => (task[t].reply.kind = "body" /\ task[t].reply.ll
               /\ task[t].reply.code = "200")
  /\ \A r \in CommandReplies :
       HTTPClient_send_command(r).result = "value" => (r.ll /\ r.code = "200")

\* C4: one call of send_command goes through at most one
\* reconnect-and-retry cycle (on a client allowed at least one connection
\* attempt).
C4_SingleReconnectCycle ==
  max_reconnect_attempts >= 1 => \A t \in Tasks : obs[t].reconnects <= 1

\* C5: once a command was answered with a network error or an HTTP 5xx
\* status, the client is marked broken (connected = false).
C5_BrokenAfterTransportFailure ==
  \A t \in Tasks :
    task[t].reply.kind \in {"net", "status5xx"} => ~obs[t].connAfter

\* C6: whenever a command was dispatched, the token had at least
\* REFRESH_MARGIN seconds left or had been refreshed earlier in the same
\* call, and it was not expired.
C6_DispatchWithValidToken ==
  \A t \in Tasks :
    obs[t].dispatch >= 1
      => /\ obs[t].remaining >= REFRESH_MARGIN \/ obs[t].dispatchRefreshed
         /\ obs[t].remaining >= 0

\* C6, its case: the token of a connected client came within the margin
\* or expired, and the command was dispatched after the refresh.
C6_Witness ==
  \E t \in Tasks :
    /\ obs[t].dispatch >= 1
    /\ obs[t].dispatchRefreshed
    /\ obs[t].dispatchToken >= 2

\* C7: no getkey2, getjwt, refreshjwt, structure or command request leaves
\* the client unless the probe GET /jdev/cfg/apiKey succeeded since the
\* connection was last opened or marked broken.
C7_ProbeBeforeRequests ==
  \A t \in Tasks : obs[t].unprobed = "none"

\* C8: with the default max_reconnect_attempts = -1, a failed reconnect
\* attempt does not end the reconnect cycle: until the owner closes the
\* client, some message handler keeps running.
C8_FailedAttemptKeepsCycle ==
  (ws_max_reconnect_attempts = -1 /\ wsObs.failed /\ ~wsObs.ownerClosed)
    => \E h \in Handlers : actor[h].pc \notin {"none", "ended", "hung"}

\* C9: every step other than the processing of a received frame (close,
\* connect, _reconnect among them) leaves what get_state returns for every
\* UUID as it was.
C9_MirrorRetained ==
  [][framesDone' = framesDone
       => \A u \in UuidSpace : get_state(u)' = get_state(u)]_vars

\* C9, its case: the mirror held a value when the connection was lost, a
\* reconnect completed, and the value is still there.
C9_Witness ==
  /\ wsObs.heldAtLoss
  /\ wsObs.reconnected >= 1
  /\ \E u \in UuidSpace : get_state(u) # NoValue

C11_MirrorLastWriterWins ==
  \A u \in UuidSpace :
    LET at == {i \in 1..Len(applied) : applied[i][1] = u}
    IN IF at = {} THEN get_state(u) = NoValue
       ELSE get_state(u) = applied[CHOOSE i \in at : \A j \in at : j <= i][2]

\* C11, its case: one UUID was given two different values one after the
\* other and the mirror returns the second, while another UUID has none.
C11_Witness ==
  /\ \E i, j \in 1..Len(applied) :
       /\ i < j
       /\ applied[i][1] = applied[j][1]
       /\ j = Len(applied)
       /\ get_state(applied[j][1]) = applied[j][2]
  /\ \E w \in UuidSpace : get_state(w) = NoValue

\* C12: a binary frame shorter than 24 bytes changes neither the mirror
\* nor the log of updates.  A frame whose payload holds exactly one accepted
\* (UUID, f64) tuple, at offset 0, sets the mirror's value of that UUID and
\* nothing else, whatever the header's type and identifier bytes, and
\* produces exactly one update when the value differs from the one the
\* mirror held, none when it is equal.
C12_FrameParser ==
  [][framesDone' # framesDone =>
       LET f == message'.frame
           acc == {i \in 1..(Len(f.words) - 2) :
                     /\ 8 * (i - 1) + 24 <= f.len - 8
                     /\ is_valid_sensor_uuid(UuidOf(f.words[i], f.words[i + 1]))
                     /\ is_reasonable_sensor_value(Dec(f.words[i + 2]))}
           u == UuidOf(f.words[1], f.words[2])
           v == Dec(f.words[3])
       IN /\ f.len < 24 => (states' = states /\ applied' = applied)
          /\ acc = {1} =>
               /\ states' = [states EXCEPT ![u] = v]
               /\ applied' = IF states[u] = v THEN applied
                             ELSE Append(applied, <<u, v>>)]_vars

\* C12 as stated: a frame whose payload holds exactly one accepted tuple,
\* at offset 0, produces exactly one update.
C12_AlwaysOneUpdate ==
  [][framesDone' # framesDone =>
       LET f == message'.frame
           acc == {i \in 1..(Len(f.words) - 2) :
                     /\ 8 * (i - 1) + 24 <= f.len - 8
                     /\ is_valid_sensor_uuid(UuidOf(f.words[i], f.words[i + 1]))
                     /\ is_reasonable_sensor_value(Dec(f.words[i + 2]))}
       IN /\ f.len < 24 => applied' = applied
          /\ acc = {1} => Len(applied') = Len(applied) + 1]_vars

\* C12, its case: a frame of 32 bytes under the identifier 0x5e, whose
\* payload is scanned twice, was received and its tuple is the one update
\* in the log.
C12_Witness ==
  /\ message.kind = "binary"
  /\ message.frame.identifier = 94
  /\ message.frame.len = 32
  /\ framesDone = 1
  /\ applied = <<<<UuidOf(message.frame.words[1], message.frame.words[2]),
                   Dec(message.frame.words[3])>>>>

\* C13: a receive timeout, a text frame that json.loads cannot decode, a
\* text frame with a non-200 LL.code and a binary frame leave the
\* connection as it is: the handler goes on with its loop (through the
\* keepalive after a timeout), connected, running and the websocket are
\* unchanged.
C13_SkippedInputsKeepConnection ==
  [][\A h \in Handlers :
       (/\ actor[h].pc = "recv" /\ ~actor[h].cancel
        /\ actor'[h].pc # "recv"
        /\ \/ message'.kind \in {"timeout", "binary"}
           \/ /\ message'.kind = "text"
              /\ \/ message'.text.json \in {"invalid", "unscannable"}
                 \/ message'.text.ll = "object" /\ message'.text.code # "200")
         => /\ actor'[h].pc \in {"loop", "keepalive"}
            /\ ws_connected' = ws_connected
            /\ ws_websocket' = ws_websocket
            /\ running' = running]_vars

\* C14: every sensor's ring holds at most max_events_per_sensor events,
\* the newest ones of all it was given (the oldest leave first), and at most
\* max_sensors sensors are tracked, right after the load of the file as
\* after every log_state_change.
C14_RingBound ==
  /\ Len(sensor_histories) <= MaxSensors
  /\ \A i \in 1..Len(sensor_histories) :
       LET h == sensor_histories[i] IN
       /\ Len(h.state_events) <= MaxEventsPerSensor
       /\ h.state_events = PySuffix(lgObs.full[h.uuid], MaxEventsPerSensor)

\* C14, its case: the file held more sensors and more events of one sensor
\* than the limits, a later event of a new UUID evicted a sensor, and a ring
\* that was given more events than it holds is full.
C14_Witness ==
  /\ Len(lgObs.file.sensors) > MaxSensors
  /\ lgObs.evicted
  /\ Len(sensor_histories) = MaxSensors
  /\ \E i \in 1..Len(sensor_histories) :
       /\ Len(lgObs.full[sensor_histories[i].uuid]) > MaxEventsPerSensor
       /\ Len(sensor_histories[i].state_events) = MaxEventsPerSensor

\* C15: the log file changes only in a sync that found pending changes,
\* and it is never left truncated: it holds the previous or the new
\* complete snapshot, also when the write fails or the process stops.
C15_AtomicSync ==
  [][/\ log_file' # log_file => pending_changes > 0
     /\ log_file'.kind # "partial"]_vars

\* C16: when shutdown has returned (and its own write, if any, did not
\* fail), no change logged since the last successful write is left
\* unwritten.
C16_FinalSync ==
  (lgPhase = "down" /\ ~lgObs.finalFailed) => ~lgObs.unsaved

\* C17: of a file that is JSON and within the sensor limit, every sensor
\* record that has the keys the loader reads is loaded, whatever the
\* records before it and whatever unknown keys it or its events carry.
C17_LoadKeepsWellFormed ==
  (lgObs.file.kind = "json" /\ Len(lgObs.file.sensors) <= MaxSensors)
    => \A r \in Range(lgObs.file.sensors) :
         r.fields # "missing" => r.uuid \in lgObs.loaded

\* C18: in every sensor's history the timestamps are non-decreasing in log
\* order, loaded events and events appended afterwards alike.
C18_TimestampsMonotone ==
  \A h \in Range(sensor_histories) :
    \A i, j \in 1..Len(h.state_events) :
      i < j => h.state_events[i] <= h.state_events[j]

\* C19: after the analysis a sensor classified door_window has reported
\* only the values 0 and 1 and has an update_count of at most 3.
C19_DoorWindowStrict ==
  (discovery.sensor.analysed /\ discovery.sensor.category = "door_window")
    => /\ discovery.sensor.unique_values \subseteq {0, 1}
       /\ discovery.sensor.update_count <= 3

\* C20: after the analysis, a sensor with 3 updates over the values 0 and 1
\* is door_window; one with 40 updates over non-binary values inside the
\* analog range is analog; one with 500 updates is noisy when its values
\* are binary or leave the analog range and analog otherwise (analog and
\* noisy tie at the full score and analog comes first); and in every case
\* the category is the first one, in the order door_window, motion,
\* analog, noisy, that reaches the highest score, or unknown when every
\* score is zero.
C20_Categories ==
  discovery.sensor.analysed =>
    LET n == discovery.sensor.update_count
        uv == discovery.sensor.unique_values
        cat == discovery.sensor.category
        inRange == \A v \in uv : 0 <= v /\ v <= 1000
        sc(i) == calculate_category_score(n, uv, SENSOR_CATEGORIES[i])
        idx == 1..Len(SENSOR_CATEGORIES)
    IN /\ (n = 3 /\ uv = {0, 1}) => cat = "door_window"
       /\ (n = 40 /\ uv \cap {0, 1} = {} /\ inRange) => cat = "analog"
       /\ n = 500 => cat = IF uv \subseteq {0, 1} \/ ~inRange THEN "noisy"
                           ELSE "analog"
       /\ IF \A i \in idx : sc(i)[1] = 0 THEN cat = "unknown"
          ELSE \E i \in idx :
                 /\ cat = SENSOR_CATEGORIES[i].category
                 /\ \A j \in idx : ~ScoreGt(sc(j), sc(i))
                 /\ \A j \in idx : j < i => ScoreGt(sc(i), sc(j))

\* C20 as stated: a sensor with 500 updates is noisy (and the two other
\* examples).
C20_NoisyAt500 ==
  discovery.sensor.analysed =>
    /\ (discovery.sensor.update_count = 3
          /\ discovery.sensor.unique_values = {0, 1})
         => discovery.sensor.category = "door_window"
    /\ (discovery.sensor.update_count = 40
          /\ discovery.sensor.unique_values \subseteq {20, 21})
         => discovery.sensor.category = "analog"
    /\ discovery.sensor.update_count = 500
         => discovery.sensor.category = "noisy"

\* C20, its case: a sensor with 500 updates was analysed and is noisy.
C20_Witness ==
  /\ discovery.sensor.analysed
  /\ discovery.sensor.update_count = 500
  /\ discovery.sensor.category = "noisy"

\* C21: the value_history of a discovered sensor never holds more than its
\* maximum length (64 entries).  value_history has one entry per counted
\* update (lines 136-139, 144-146), so its length is update_count.
C21_HistoryCapped ==
  LET value_history_len == discovery.sensor.update_count
  IN value_history_len <= 64

\* C22: a control tool called with an action that is not valid after
\* normalization issues no command and returns, for every targeted device,
\* an entry whose error names the action and its normalized form:
\* "Invalid action: <action> (normalized: <normalized action>)".
C22_InvalidAction ==
  LET call == server.call
      valid == IF call.tool = "control_rolladen"
               THEN {"up", "down", "stop", "position"}
               ELSE {"on", "off", "toggle", "dim"}
  IN (/\ call.tool \in {"control_rolladen", "control_light"}
      /\ call.devices # <<>>
      /\ normalize_action(call.action) \notin valid)
     => /\ server.sent = <<>>
        /\ server.result.controlled = 0
        /\ Len(server.result.results) = Len(call.devices)
        /\ \A i \in 1..Len(call.devices) :
             server.result.results[i] =
               [device |-> call.devices[i].name,
                error |-> "Invalid action: " \o call.action \o " (normalized: "
                          \o normalize_action(call.action) \o ")"]

\* C22 as stated: the error of such an entry is "Invalid action: <action>".
C22_ErrorIsActionOnly ==
  LET call == server.call
      valid == IF call.tool = "control_rolladen"
               THEN {"up", "down", "stop", "position"}
               ELSE {"on", "off", "toggle", "dim"}
  IN (/\ call.tool \in {"control_rolladen", "control_light"}
      /\ call.devices # <<>>
      /\ normalize_action(call.action) \notin valid)
     => /\ server.sent = <<>>
        /\ \A i \in 1..Len(call.devices) :
             server.result.results[i].error = "Invalid action: " \o call.action

\* C22, its case: control_rolladen was called with "dance" for the two
\* blinds of the rooms matching "Bad" and "Badezimmer", and sent nothing.
C22_Witness ==
  /\ server.call.tool = "control_rolladen"
  /\ server.call.action = "dance"
  /\ Len(server.call.devices) >= 2
  /\ server.sent = <<>>
  /\ Len(server.result.results) = Len(server.call.devices)

\* C23: a control call with a valid action sends exactly one command to
\* each matched device (up: FullUp, down: FullDown, stop: Stop, position p:
\* moveToPosition/p; on: On, off: Off, toggle: Pulse, dim b: b), whether or
\* not the command of an earlier device failed, and returns one entry per
\* matched device with controlled the number of entries flagged success.
C23_OneCommandPerDevice ==
  LET call == server.call
      n == normalize_action(call.action)
      command ==
        CASE call.tool = "control_rolladen" /\ n = "up" -> "FullUp"
          [] call.tool = "control_rolladen" /\ n = "down" -> "FullDown"
          [] call.tool = "control_rolladen" /\ n = "stop" -> "Stop"
          [] call.tool = "control_rolladen" /\ n = "position"
               -> "moveToPosition/" \o call.value
          [] call.tool = "control_light" /\ n = "on" -> "On"
          [] call.tool = "control_light" /\ n = "off" -> "Off"
          [] call.tool = "control_light" /\ n = "toggle" -> "Pulse"
          [] call.tool = "control_light" /\ n = "dim" -> call.value
          [] OTHER -> "None"
      flagged == {i \in 1..Len(call.devices) :
                    "success" \in DOMAIN server.result.results[i]}
  IN (/\ call.tool \in {"control_rolladen", "control_light"}
      /\ call.devices # <<>>
      /\ command # "None"
      /\ n \in {"position", "dim"} => call.value # "None")
     => /\ \A i, j \in 1..Len(call.devices) :
             call.devices[i].uuid = call.devices[j].uuid => i = j
        /\ Len(server.sent) = Len(call.devices)
        /\ \A i \in 1..Len(call.devices) :
             server.sent[i] = "jdev/sps/io/" \o call.devices[i].uuid \o "/"
                              \o command
        /\ Len(server.result.results) = Len(call.devices)
        /\ \A i \in 1..Len(call.devices) :
             /\ server.result.results[i].device = call.devices[i].name
             /\ i \in flagged => server.result.results[i].success
             /\ i \notin flagged => "error" \in DOMAIN server.result.results[i]
        /\ server.result.controlled = Cardinality(flagged)

\* C23, its case: a room-wide call for three blinds whose second command
\* failed; the third command was sent all the same and two blinds count as
\* controlled.
C23_Witness ==
  /\ server.call.tool = "control_rolladen"
  /\ Len(server.call.devices) = 3
  /\ Len(server.sent) = 3
  /\ server.result.controlled = 2
  /\ "error" \in DOMAIN server.result.results[2]
  /\ "success" \in DOMAIN server.result.results[3]

\* C24: with authentication required, a request to /messages, /sse or the
\* streamable-HTTP route that carries the configured key neither as the
\* Bearer credentials of Authorization nor in X-API-Key is answered 401
\* with WWW-Authenticate: Bearer and is not dispatched.
C24_NoKeyNoDispatch ==
  (/\ server.SSE_REQUIRE_AUTH
   /\ server.request.path \in {"/messages", "/sse", "/mcp"}
   /\ server.request.authorization \notin {"Bearer key", "bearer key"}
   /\ server.request.x_api_key # server.SSE_API_KEY)
  => /\ server.response.status = 401
     /\ server.response.www_authenticate = "Bearer"
     /\ ~server.response.dispatched

\* C25: a tool called while the server has no Loxone context returns an
\* error result (list_rooms the list [{"error": "Not connected to
\* Loxone"}], every other tool an error result likewise) and sends no
\* command.
C25_ErrorWhenNotConnected ==
  (server.call.tool # "None" /\ ~server.context.connected)
  => /\ server.sent = <<>>
     /\ IF server.call.tool \in {"list_rooms", "get_room_devices"}
        THEN server.result = <<[error |-> "Not connected to Loxone"]>>
        ELSE server.result = [error |-> "Not connected to Loxone"]

\* C26: a query that equals the name of a room, ignoring case, resolves to
\* exactly that room.
C26_ExactMatchPreferred ==
  LET rooms == server.context.rooms
      exact == {i \in 1..Len(rooms) :
                  lower(rooms[i].name) = lower(server.call.room)}
  IN (/\ server.call.tool \in {"get_room_devices", "control_rolladen",
                               "control_light"}
      /\ server.context.connected
      /\ exact # {})
     => find_matching_room(server.call.room, rooms)
          = [n \in 1..1 |-> rooms[CHOOSE i \in exact : TRUE]]

\* C27: a query that is only a floor prefix (OG, EG, UG, DG or a long form)
\* resolves to the rooms whose names carry that prefix, and to no room when
\* none carries it.
C27_FloorOnly ==
  LET rooms == server.context.rooms
      query == strip(lower(server.call.room))
      prefix ==
        CASE query \in {"og", "obergeschoss", "upstairs", "upper floor",
                        "1st floor"} -> "OG"
          [] query \in {"eg", "erdgeschoss", "ground floor", "main floor"}
               -> "EG"
          [] query \in {"ug", "untergeschoss", "basement", "lower floor",
                        "keller"} -> "UG"
          [] query \in {"dg", "dachgeschoss", "attic", "top floor",
                        "dachboden"} -> "DG"
          [] OTHER -> "None"
      Carries(r) == /\ Len(r.name) > Len(prefix)
                    /\ SubSeq(r.name, 1, Len(prefix) + 1) = prefix \o " "
  IN (/\ server.call.tool \in {"get_room_devices", "control_rolladen",
                               "control_light"}
      /\ server.context.connected
      /\ prefix # "None")
     => find_matching_room(server.call.room, rooms) = SelectSeq(rooms, Carries)

\* C28: normalizing an action twice gives what normalizing it once gives.
C28_NormalizeIdempotent ==
  server.call.tool \in {"control_rolladen", "control_light"}
  => normalize_action(normalize_action(server.call.action))
       = normalize_action(server.call.action)

\* C28, its case: control_rolladen was called with the alias "HOCH", which
\* is not its own normal form, and sent FullUp.
C28_Witness ==
  /\ server.call.tool = "control_rolladen"
  /\ server.call.action = "HOCH"
  /\ server.sent = <<"jdev/sps/io/J1/FullUp", "jdev/sps/io/J2/FullUp",
                     "jdev/sps/io/J4/FullUp">>

\* C29: when close() finds a token, it sends killtoken once, for that token
\* and with a timeout of 5 seconds; a 401 reply is logged as an already
\* invalid token, every other failure or timeout as a warning; and whatever
\* the reply, close() returns with the token cleared and not connected.
C29_CloseKillsTokenOnce ==
  /\ closing.pc = "killtoken" =>
        closing.kills = <<[token |-> closing.held, timeout |-> 5]>>
  /\ closing.pc = "closed" /\ closing.held # None =>
        /\ closing.kills = <<[token |-> closing.held, timeout |-> 5]>>
        /\ closing.outcome = "401" =>
              closing.log = "debug: Token already invalid or expired"
        /\ closing.outcome \in {"500", "timeout", "error"} =>
              closing.log \in {"warning: Token invalidation timed out",
                                "warning: Failed to invalidate token",
                                "warning: Token invalidation returned 500"}
        /\ closing.returned = [token |-> None, connected |-> FALSE]

\* close() has returned after a killtoken request that timed out.
C29_Witness ==
  /\ closing.pc = "closed"
  /\ closing.held # None
  /\ closing.outcome = "timeout"
  /\ closing.returned.token = None

\* C30: at any time at most one message-handler task of the client waits in
\* recv() for the next frame.
C30_OneHandlerReceiving ==
  Cardinality({h \in Handlers : actor[h].pc = "recv" /\ ~actor[h].cancel}) <= 1

\* C36: when connect() has returned without raising (the caller stands
\* right after _ensure_connection), the client is connected, holds a token
\* and has loaded the structure.
C36_ConnectReturnsConnected ==
  \A t \in Tasks :
    task[t].pc = "after_ensure" => connected /\ token # None /\ structure

\* C35: once a classified result can be read, every later read sees a
\* classified result, the previous one or the new one: no step leaves the
\* readers with an empty or an unclassified set of sensors.
C35_ResultReplacedAtomically ==
  [][discovery.sensor.analysed => discovery'.sensor.analysed]_vars

\* C34: a state change for a UUID that is not tracked, arriving while
\* max_sensors sensors are tracked, evicts exactly one sensor, one whose
\* last_updated is the smallest; below the limit, and for a tracked UUID,
\* no sensor is evicted.
C34_EvictsOldestOnly ==
  [][LET uuids(h) == {h[i].uuid : i \in 1..Len(h)}
         evicted == uuids(sensor_histories) \ uuids(sensor_histories')
         new == uuids(sensor_histories') \ uuids(sensor_histories)
     IN lgObs'.changes # lgObs.changes =>
          IF new # {} /\ Len(sensor_histories) = MaxSensors
          THEN /\ Cardinality(evicted) = 1
               /\ \A i, j \in 1..Len(sensor_histories) :
                     sensor_histories[i].uuid \in evicted =>
                       sensor_histories[i].last_updated
                         <= sensor_histories[j].last_updated
          ELSE evicted = {}]_vars

\* The limit is reached, a sensor was evicted for a new UUID, and the
\* sensors that stayed were updated at different times.
C34_Witness ==
  /\ lgObs.evicted
  /\ Len(sensor_histories) = MaxSensors
  /\ \E i, j \in 1..Len(sensor_histories) :
        sensor_histories[i].last_updated < sensor_histories[j].last_updated

\* C33: in the scan of a received frame, a window that is rejected (its
\* value is not a reasonable sensor value) is followed by the window one
\* byte further on, whenever the payload still holds 24 bytes from there.
C33_RejectedWindowAdvancesOne ==
  message.kind = "binary" /\ message.frame.len >= 24 =>
    LET n == message.frame.len - 8
        payload == message.frame.words
    IN \A offset \in window_offsets(n, 0) :
         LET i == (offset \div 8) + 1 IN
         /\ ~(/\ is_valid_sensor_uuid(UuidOf(payload[i], payload[i + 1]))
              /\ is_reasonable_sensor_value(Dec(payload[i + 2])))
         /\ offset + 1 + 24 <= n
         => offset + 1 \in window_offsets(n, 0)

\* C39: the processing of one binary frame changes the mirror (and so
\* publishes an update and logs a state change) at most once for each
\* 24-byte window of its payload, whatever its header identifier.
C39_AtMostOneUpdatePerTuple ==
  [][framesDone' # framesDone =>
       Len(applied') - Len(applied)
         <= Cardinality(window_offsets(message'.frame.len - 8, 0))]_vars

C38_ReconnectUsesCurrentToken ==
  [][(\E a \in Actors : /\ actor[a].pc # "c_auth"
                        /\ actor'[a].pc = "c_auth"
                        /\ actor'[a].via = "reconnect")
       => wsObs'.authToken = token']_vars

\* C32: the reply to refreshjwt either replaces the token and its expiry
\* and sends no getjwt (code 200), or leaves the token as it is and sends
\* getkey2; the command is dispatched only behind a refresh check that
\* found nothing to do, a refreshjwt that replaced the token or a getjwt
\* that did, and getkey2 leads to getjwt or to a failure, never further.
C32_RefreshOrReauth ==
  [][\A t \in Tasks :
       /\ task[t].pc = "refreshjwt" /\ task'[t].pc # "refreshjwt" =>
            \/ /\ task'[t].pc = "post_refresh"
               /\ token' = issued + 1
               /\ token_valid_until' - CurrentTime \in Lifetimes
               /\ obs'[t].getjwt = obs[t].getjwt
            \/ /\ task'[t].pc = "getkey2"
               /\ token' = token
               /\ token_valid_until' = token_valid_until
       /\ task'[t].pc = "post_refresh" /\ task[t].pc # "post_refresh" =>
            \/ task[t].pc = "refresh_check"
            \/ task[t].pc \in {"refreshjwt", "getjwt"} /\ token' = issued + 1
       /\ task[t].pc = "getkey2" =>
            task'[t].pc \notin {"post_refresh", "dispatch", "structure"}
       /\ task'[t].pc = "dispatch" /\ task[t].pc # "dispatch" =>
            task[t].pc = "post_refresh"]_vars

\* The token was within the refresh margin before a command, refreshjwt
\* replied with a code other than 200, getkey2 succeeded and getjwt is in
\* flight; no command of this call has been dispatched.
C32_Witness ==
  \E t \in Tasks :
    /\ task[t].pc = "getjwt"
    /\ task[t].ctx = "refresh_cmd_else"
    /\ obs[t].dispatch = 0
    /\ token # None

\* C31: at most one caller at a time has a refreshjwt or a getkey2 / getjwt
\* exchange in flight.
C31_ExclusiveTokenWriter ==
  Cardinality({t \in Tasks : task[t].pc \in {"refreshjwt", "getkey2", "getjwt"}}) <= 1

\* C37: at most one caller runs connect() at a time; while the event is
\* cleared some caller is inside connect() (so the event is set again when
\* that connect() ends, whichever way), a caller waits only for a cleared
\* event or is about to resume, and no caller probes a connection.
C37_OneReconnection ==
  LET InConnect(t) ==
        \/ task[t].pc \in {"probe", "sleep"}
        \/ /\ task[t].ctx \in {"connect", "refresh_struct", "refresh_struct_else"}
           /\ task[t].pc \in {"getkey2", "getjwt", "struct_entry", "refresh_check",
                               "refreshjwt", "post_refresh", "structure"}
  IN /\ Cardinality({t \in Tasks : InConnect(t)}) <= 1
     /\ ~reconnection_event <=> \E t \in Tasks : InConnect(t)
     /\ \A t \in Tasks : task[t].pc # "ens_probe"

\* A caller that found a reconnection in progress has been released by a
\* reconnection that failed, and has not resumed yet.
C37_Witness ==
  \E t, u \in Tasks :
    /\ task[t].pc = "ens_wait"
    /\ reconnection_event
    /\ ~connected
    /\ task[u].pc = "done"
    /\ task[u].result = "error"
    /\ task[u].attempt = max_reconnect_attempts

====
